---------------------------- MODULE Spec2Model ----------------------------
(***************************************************************************)
(* Model of the BVMT anomaly detection engine (bvmt/anomaly.py) and of the *)
(* live monitor that drives it (anomaly/api.py).                            *)
(*                                                                         *)
(* Numbers.  Prices, quantities and percentages are integers here; the     *)
(* code holds prices and percentages in floats.  The spread checks divide  *)
(* prices, and the rounding of the quotients decides the test z > 3 where  *)
(* z is 3 exactly: spreads, their mean, their standard deviation and z are *)
(* computed in floats as the code computes them, see spread_pct, mean,     *)
(* stdev and FloatDiv.  The volume and price checks compare whole numbers  *)
(* and are kept as the exact comparison of the same rational numbers: for  *)
(* volumes the tests "stdev = 0" and "z > k" are decided exactly, see      *)
(* ZExceeds.                                                               *)
(*                                                                         *)
(* Alerts.  An alert keeps timestamp, isin, valeur, anomaly_type and       *)
(* severity; of the message it keeps the direction / side label.  The      *)
(* remaining text and the numeric current_value / threshold are left out.  *)
(***************************************************************************)
EXTENDS Integers, Sequences, FiniteSets, TLC

(***************************************************************************)
(* Configuration constants (bvmt/config.py) and literals of the detectors  *)
(***************************************************************************)
VOLUME_SIGMA_THRESHOLD == 3
PRICE_CHANGE_THRESHOLD == 5
ORDER_IMBALANCE_RATIO == 5
SPREAD_SIGMA_THRESHOLD == 3
MIN_HISTORY == 3
HISTORY_MAXLEN == 200
CRITICAL_SIGMA == 5
CRITICAL_PCT == 8
RAPID_MOVE_PCT == 2
SPOOF_RATIO == 10
SPOOF_MIN_QTY == 1000
TOP_N == 10

(***************************************************************************)
(* Python ints are unbounded and exact; an OverflowError is raised where   *)
(* an int or a fraction that does not fit a float is converted to one.     *)
(* Model integers have 32 bits, so FLOAT_MAX stands for the largest float  *)
(* (about 1.8e308) and HUGE_VOLUME for the volume 10**400, which exceeds   *)
(* it by so much that no ordinary volume subtracted from it and no         *)
(* division by a window length brings it back into range.  Every other     *)
(* volume drawn below is ordinary (far below FLOAT_MAX).  A value is then  *)
(* either ordinary or HUGE_VOLUME minus an ordinary one, and the model     *)
(* computes with the ordinary part only.                                   *)
(***************************************************************************)
FLOAT_MAX == 1000000000
HUGE_VOLUME == 2000000000

(***************************************************************************)
(* Sequence and arithmetic helpers                                         *)
(***************************************************************************)
Abs(x) == IF x < 0 THEN -x ELSE x

Min(a, b) == IF a < b THEN a ELSE b

Range(s) == {s[i] : i \in DOMAIN s}

Last(s) == s[Len(s)]

\* the sum of a sequence, by halves
RECURSIVE Sum(_)
Sum(s) ==
    IF Len(s) = 0 THEN 0
    ELSE IF Len(s) = 1 THEN s[1]
    ELSE Sum(SubSeq(s, 1, Len(s) \div 2)) + Sum(SubSeq(s, Len(s) \div 2 + 1, Len(s)))

SumSq(s) == Sum([i \in 1..Len(s) |-> s[i] * s[i]])

RECURSIVE GCD(_, _)
GCD(a, b) == IF b = 0 THEN Abs(a) ELSE GCD(b, a % Abs(b))

RECURSIVE GCDAll(_)
GCDAll(s) ==
    IF Len(s) = 0 THEN 0
    ELSE IF Len(s) = 1 THEN Abs(s[1])
    ELSE GCD(GCDAll(SubSeq(s, 1, Len(s) \div 2)),
             GCDAll(SubSeq(s, Len(s) \div 2 + 1, Len(s))))

RECURSIVE Concat(_)
Concat(ss) == IF ss = <<>> THEN <<>> ELSE Head(ss) \o Concat(Tail(ss))

IsPrefix(s, t) == Len(s) <= Len(t) /\ SubSeq(t, 1, Len(s)) = s

(***************************************************************************)
(* statistics.mean / statistics.stdev, decided exactly.                    *)
(* For a sample x_1..x_n with sum S and sum of squares SS, the sample      *)
(* variance is Q / (n (n-1)) with Q = n SS - S^2, and the mean is S / n.   *)
(* z = (x - mean) / stdev is unchanged when the sample and x are divided   *)
(* by a common factor, which keeps the products small.                     *)
(***************************************************************************)
Moments(n, S, SS, x) == [n |-> n, S |-> S, Q |-> n * SS - S * S, x |-> x]

MomentsOf(xs, x) == Moments(Len(xs), Sum(xs), SumSq(xs), x)

ScaledBy(sample, x, g) ==
    MomentsOf([i \in 1..Len(sample) |-> sample[i] \div g], x \div g)

CommonFactor(g0) == IF g0 = 0 THEN 1 ELSE g0

Scaled(sample, x) == ScaledBy(sample, x, CommonFactor(GCDAll(Append(sample, x))))

\* statistics.stdev(sample) == 0 (sample of length >= 2)
StdevZero(sample) == Scaled(sample, 0).Q = 0

\* faulty variant: the deviation is compared by its square, whatever its sign
ZAboveSquared(st, k) ==
    LET num == st.n * st.x - st.S
    IN  /\ st.Q > 0
        /\ num * num * (st.n - 1) > k * k * st.n * st.Q

\* (x - mean(sample)) / stdev(sample) > k, for stdev > 0 and k >= 0
ZAbove(st, k) ==
    LET num == st.n * st.x - st.S
    IN  /\ st.Q > 0
        /\ num > 0
        /\ num * num * (st.n - 1) > k * k * st.n * st.Q

\* faulty variant: the limit is taken one standard deviation lower
ZExceedsEarly(sample, x, k) == ZAbove(Scaled(sample, x), k - 1)

ZExceeds(sample, x, k) == ZAbove(Scaled(sample, x), k)

\* the value does not fit a float
IsHuge(v) == v >= FLOAT_MAX

\* v = 10**400 + SmallPart(v) for a huge v, v = SmallPart(v) otherwise
SmallPart(v) == IF IsHuge(v) THEN v - HUGE_VOLUME ELSE v

SmallParts(sample) == [i \in DOMAIN sample |-> SmallPart(sample[i])]

HugeCount(sample) == Len(SelectSeq(sample, IsHuge))

\* x modulo n, in 0..n-1 also for x < 0
Mod(x, n) == ((x % n) + n) % n

Sq(x) == x * x

\* b**e modulo m
RECURSIVE PowMod(_, _, _)
PowMod(b, e, m) ==
    IF e = 0 THEN 1 % m
    ELSE IF e % 2 = 0 THEN Sq(PowMod(b, e \div 2, m)) % m
    ELSE (b * PowMod(b, e - 1, m)) % m

\* 10**400 modulo n
HugeMod(n) == PowMod(10, 400, n)

\* the exact sum of the sample modulo its length
SumMod(sample) ==
    Mod(HugeCount(sample) * HugeMod(Len(sample)) + Sum(SmallParts(sample)), Len(sample))

\* statistics.mean(sample) raises OverflowError: the mean of ints is computed
\* exactly and returned as an int when it is a whole number, as float(mean)
\* otherwise, which overflows when a value of the sample is huge
MeanOverflows(sample) == HugeCount(sample) > 0 /\ SumMod(sample) # 0

\* statistics.stdev(sample) raises OverflowError: the variance is computed
\* exactly and its square root as a float, which overflows when huge and
\* ordinary values are mixed; values that are all huge differ by their
\* ordinary parts only
StdevOverflows(sample) == 0 < HugeCount(sample) /\ HugeCount(sample) < Len(sample)

\* (x - mean_v) / std_v raises OverflowError, for a sample on which mean and
\* stdev did not: the int x - mean_v, or x itself when mean_v is a float, is
\* converted to a float
ZOverflows(sample, x) ==
    \/ HugeCount(sample) = 0 /\ IsHuge(x)
    \/ HugeCount(sample) > 0 /\ ~IsHuge(x)

\* mean_v + k * std_v raises OverflowError: mean_v is a huge int
BandOverflows(sample) == HugeCount(sample) > 0

(***************************************************************************)
(* Natural numbers of any size: a sequence of limbs in base 2^15, least    *)
(* significant first, without a leading zero limb; <<>> is 0.  They hold   *)
(* the 53-bit significands of the floats below and the exact sums that     *)
(* statistics.mean and statistics.stdev form (statistics._sum, _ss).       *)
(***************************************************************************)
LIMB == 2^15

Pow2(k) == 2^k

RECURSIVE Bits(_)
Bits(x) == IF x = 0 THEN 0 ELSE 1 + Bits(x \div 2)

LIMB_BITS == Bits(LIMB) - 1

Limb0(a) == IF a = <<>> THEN 0 ELSE a[1]

Rest(a) == IF a = <<>> THEN <<>> ELSE Tail(a)

RECURSIVE Trim(_)
Trim(a) ==
    IF a = <<>> THEN a
    ELSE IF a[Len(a)] # 0 THEN a
    ELSE Trim(SubSeq(a, 1, Len(a) - 1))

RECURSIVE NatOf(_)
NatOf(x) == IF x = 0 THEN <<>> ELSE <<x % LIMB>> \o NatOf(x \div LIMB)

\* a + b + c, c a carry of 0 or 1
RECURSIVE AddC(_, _, _)
AddLimb(t, a, b) == <<t % LIMB>> \o AddC(a, b, t \div LIMB)

AddC(a, b, c) ==
    IF b = <<>> /\ c = 0 THEN a
    ELSE IF a = <<>> /\ c = 0 THEN b
    ELSE IF a = <<>> /\ b = <<>> THEN <<c>>
    ELSE AddLimb(Limb0(a) + Limb0(b) + c, Rest(a), Rest(b))

Add(a, b) == AddC(a, b, 0)

\* a - b - c for a >= b + c, c a borrow of 0 or 1
RECURSIVE SubB(_, _, _)
SubLimb(t, a, b) == <<t % LIMB>> \o SubB(a, b, IF t < LIMB THEN 1 ELSE 0)

SubB(a, b, c) ==
    IF b = <<>> /\ c = 0 THEN a
    ELSE SubLimb(LIMB + Limb0(a) - Limb0(b) - c, Rest(a), Rest(b))

Sub(a, b) == Trim(SubB(a, b, 0))

RECURSIVE CmpFrom(_, _, _)
CmpFrom(a, b, i) ==
    IF i = 0 THEN 0
    ELSE IF a[i] > b[i] THEN 1
    ELSE IF a[i] < b[i] THEN -1
    ELSE CmpFrom(a, b, i - 1)

\* 1, 0 or -1 as a is above, equal to or below b
Cmp(a, b) ==
    IF Len(a) > Len(b) THEN 1
    ELSE IF Len(a) < Len(b) THEN -1
    ELSE CmpFrom(a, b, Len(a))

\* a * k + c for 0 <= k <= LIMB
RECURSIVE MulC(_, _, _)
MulLimb(t, a, k) == <<t % LIMB>> \o MulC(a, k, t \div LIMB)

MulC(a, k, c) == IF a = <<>> THEN NatOf(c) ELSE MulLimb(a[1] * k + c, Tail(a), k)

MulSmall(a, k) == IF k = 0 THEN <<>> ELSE IF k = 1 THEN a ELSE MulC(a, k, 0)

\* a * LIMB^j
ShiftLimbs(a, j) == IF a = <<>> THEN <<>> ELSE [i \in 1..j |-> 0] \o a

\* a \div LIMB^j
DropLimbs(a, j) == IF j >= Len(a) THEN <<>> ELSE SubSeq(a, j + 1, Len(a))

RECURSIVE Mul(_, _)
Mul(a, b) ==
    IF a = <<>> \/ b = <<>> THEN <<>>
    ELSE Add(MulSmall(a, b[1]), ShiftLimbs(Mul(a, Tail(b)), 1))

Square(a) == Mul(a, a)

\* quotient q and remainder r of a by k, for 1 <= k <= LIMB
RECURSIVE DivFrom(_, _, _, _, _)
DivLimb(a, k, i, t, q) == DivFrom(a, k, i - 1, t % k, <<t \div k>> \o q)

DivFrom(a, k, i, r, q) ==
    IF i = 0 THEN [q |-> Trim(q), r |-> r]
    ELSE DivLimb(a, k, i, r * LIMB + a[i], q)

DivSmall(a, k) == DivFrom(a, k, Len(a), 0, <<>>)

\* the number of binary digits of a
BitLen(a) == IF a = <<>> THEN 0 ELSE LIMB_BITS * (Len(a) - 1) + Bits(a[Len(a)])

\* the binary digit of a of weight 2^i
Bit(a, i) ==
    IF i \div LIMB_BITS + 1 > Len(a) THEN 0
    ELSE (a[i \div LIMB_BITS + 1] \div Pow2(i % LIMB_BITS)) % 2

\* a is a multiple of 2^b
LowZero(a, b) ==
    /\ \A j \in 1..Min(b \div LIMB_BITS, Len(a)) : a[j] = 0
    /\ b \div LIMB_BITS + 1 <= Len(a) => a[b \div LIMB_BITS + 1] % Pow2(b % LIMB_BITS) = 0

\* a * 2^b
ShiftLeft(a, b) == ShiftLimbs(MulSmall(a, Pow2(b % LIMB_BITS)), b \div LIMB_BITS)

\* a \div 2^b
ShiftRight(a, b) == DivSmall(DropLimbs(a, b \div LIMB_BITS), Pow2(b % LIMB_BITS)).q

\* the number of zero limbs a ends in
LowZeroLimbs(a) ==
    CHOOSE j \in 0..Len(a) : (\A i \in 1..j : a[i] = 0) /\ (j = Len(a) \/ a[j + 1] # 0)

\* the sum of a sequence of naturals, by halves
RECURSIVE SumNat(_)
SumNat(s) ==
    IF Len(s) = 0 THEN <<>>
    ELSE IF Len(s) = 1 THEN s[1]
    ELSE Add(SumNat(SubSeq(s, 1, Len(s) \div 2)),
             SumNat(SubSeq(s, Len(s) \div 2 + 1, Len(s))))

\* the next limb of the quotient of R by D, or up to 2 above it (R < D * LIMB,
\* the first limb of D at least LIMB / 2)
Estimate(R, D) ==
    IF Len(R) < Len(D) THEN 0
    ELSE IF Len(R) = Len(D) THEN R[Len(D)] \div D[Len(D)]
    ELSE Min((R[Len(D) + 1] * LIMB + R[Len(D)]) \div D[Len(D)], LIMB - 1)

\* long division of the limbs i, i - 1, ..., 1 of N by D: R is the remainder
\* and q the quotient of the limbs above them
RECURSIVE DivStep(_, _, _, _, _)
RECURSIVE DivFix(_, _, _, _, _, _, _)
DivFix(N, D, i, R, q, qh, P) ==
    IF Cmp(P, R) > 0 THEN DivFix(N, D, i, R, q, qh - 1, Sub(P, D))
    ELSE DivStep(N, D, i - 1, Sub(R, P), <<qh>> \o q)

DivEstimated(N, D, i, R, q, qh) == DivFix(N, D, i, R, q, qh, MulSmall(D, qh))

DivDigit(N, D, i, R, q) == DivEstimated(N, D, i, R, q, Estimate(R, D))

DivStep(N, D, i, R, q) ==
    IF i = 0 THEN [q |-> Trim(q), r |-> R]
    ELSE DivDigit(N, D, i, Trim(<<N[i]>> \o R), q)

DivScaled(N, D, f) == DivStep(ShiftLeft(N, f), ShiftLeft(D, f), Len(ShiftLeft(N, f)), <<>>, <<>>)

Unscaled(st, f) == [q |-> st.q, r |-> ShiftRight(st.r, f)]

\* quotient q and remainder r of N by D, for D of two limbs or more: both
\* are scaled so that the first limb of D is at least LIMB / 2
DivRem(N, D) ==
    Unscaled(DivScaled(N, D, LIMB_BITS - Bits(D[Len(D)])), LIMB_BITS - Bits(D[Len(D)]))

\* the integer square root s of x < LIMB^2, one binary digit at a time
RECURSIVE RootBits(_, _, _)
RootBits(x, s, bit) ==
    IF bit = 0 THEN s
    ELSE IF (s + bit) * (s + bit) <= x THEN RootBits(x, s + bit, bit \div 2)
    ELSE RootBits(x, s, bit \div 2)

Rooted(x, s) == [s |-> s, r |-> x - s * s]

\* root s and remainder r of the two limbs hi, lo
Root2(hi, lo) == Rooted(hi * LIMB + lo, RootBits(hi * LIMB + lo, 0, LIMB \div 2))

\* a root s one too large, its remainder r negative
Lowered(s, r) == IF r < 0 THEN [s |-> s - 1, r |-> r + 2 * (s - 1) + 1] ELSE [s |-> s, r |-> r]

Root4Divided(top, q, u, a0) == Lowered(top.s * LIMB + q, u * LIMB + a0 - q * q)

Root4Numerator(top, num, a0) ==
    Root4Divided(top, num \div (2 * top.s), num % (2 * top.s), a0)

\* root s and remainder r of the four limbs a3, a2, a1, a0, a3 >= LIMB / 4:
\* the root of the two upper limbs, then the remainder with the third limb
\* divided by twice that root
Root4(a3, a2, a1, a0) == Root4Numerator(Root2(a3, a2), Root2(a3, a2).r * LIMB + a1, a0)

Root8Lowered(s, rest, qq) ==
    IF Cmp(rest, qq) >= 0 THEN [q |-> s, r |-> Sub(rest, qq)]
    ELSE [q |-> Sub(s, <<1>>), r |-> Sub(Add(rest, Sub(AddC(s, s, 0), <<1>>)), qq)]

Root8Divided(W, top, dv) ==
    Root8Lowered(Add(ShiftLimbs(NatOf(top.s), 2), dv.q),
                 Trim(<<W[1], W[2]>> \o dv.r), Square(dv.q))

Root8Upper(W, top) ==
    Root8Divided(W, top, DivRem(Trim(<<W[3], W[4]>> \o NatOf(top.r)), NatOf(2 * top.s)))

\* math.isqrt(W) as q, W - q * q as r, for W of eight limbs, the first at
\* least LIMB / 4: the root of the four upper limbs, then the remainder with
\* the next two limbs divided by twice that root
Root8(W) == Root8Upper(W, Root4(W[8], W[7], W[6], W[5]))

(***************************************************************************)
(* Python floats: IEEE 754 doubles, every operation rounded to the nearest *)
(* float, ties to the even significand.  A float is neg, m and e: the      *)
(* value m * 2^e, negated when neg, with m of exactly MANT_DIG binary      *)
(* digits, or m = <<>> for 0.  The prices and percentages below stay far   *)
(* from the largest and the smallest float, so there is no overflow and no *)
(* subnormal result.                                                       *)
(***************************************************************************)
MANT_DIG == 53

Float(m, e) == [neg |-> FALSE, m |-> m, e |-> e]

Zero == Float(<<>>, 0)

Negated(x) == [x EXCEPT !.neg = ~x.neg]

IsPositive(x) == x.m # <<>> /\ ~x.neg

\* the significand grew to MANT_DIG + 1 digits by rounding up
FloatCarry(q, e) == IF BitLen(q) > MANT_DIG THEN Float(ShiftRight(q, 1), e + 1) ELSE Float(q, e)

RoundedUp(q, e, up) == IF up THEN FloatCarry(AddC(q, <<>>, 1), e) ELSE Float(q, e)

\* N * 2^E, with sh binary digits too many, to the nearest float: up when
\* the digits dropped are above one half, or one half and the digit kept odd
RoundBy(N, E, sticky, sh) ==
    IF sh <= 0 THEN Float(ShiftLeft(N, -sh), E + sh)
    ELSE RoundedUp(ShiftRight(N, sh), E + sh,
                   /\ Bit(N, sh - 1) = 1
                   /\ (sticky \/ ~LowZero(N, sh - 1) \/ Bit(N, sh) = 1))

\* the float nearest to N * 2^E, or to a number just above it when sticky
\* (N then has more than MANT_DIG + 1 digits)
Round(N, E, sticky) == IF N = <<>> THEN Zero ELSE RoundBy(N, E, sticky, BitLen(N) - MANT_DIG)

\* float(x) for an int x
FloatOf(x) == IF x < 0 THEN Negated(Round(NatOf(-x), 0, FALSE)) ELSE Round(NatOf(x), 0, FALSE)

\* the significand of x at the exponent e <= x.e
Aligned(x, e) == ShiftLeft(x.m, x.e - e)

Difference(A, B, e) ==
    IF Cmp(A, B) >= 0 THEN Round(Sub(A, B), e, FALSE)
    ELSE Negated(Round(Sub(B, A), e, FALSE))

\* a - b for floats a >= 0 and b >= 0
FloatSub(a, b) ==
    IF b.m = <<>> THEN a
    ELSE IF a.m = <<>> THEN Negated(b)
    ELSE Difference(Aligned(a, Min(a.e, b.e)), Aligned(b, Min(a.e, b.e)), Min(a.e, b.e))

\* a * b
FloatMul(a, b) ==
    IF a.neg = b.neg THEN Round(Mul(a.m, b.m), a.e + b.e, FALSE)
    ELSE Negated(Round(Mul(a.m, b.m), a.e + b.e, FALSE))

QuotientRounded(q, inexact, e) == Round(q, e, inexact)

QuotientSmall(w, e) == QuotientRounded(w.q, w.r # 0, e)

QuotientLong(st, e) == QuotientRounded(st.q, st.r # <<>>, e)

\* the float nearest to am / bm * 2^e, am and bm of as many binary digits:
\* the quotient is taken to more than MANT_DIG + 1 digits
Quotient(am, bm, e) ==
    IF Len(bm) = 1
    THEN QuotientSmall(DivSmall(ShiftLimbs(am, 5), bm[1]), e - 5 * LIMB_BITS)
    ELSE QuotientLong(DivRem(ShiftLimbs(am, 4), bm), e - 4 * LIMB_BITS)

QuotientStripped(am, bm, e, j) == Quotient(DropLimbs(am, j), DropLimbs(bm, j), e)

\* a / b for b # 0
FloatDiv(a, b) ==
    IF a.m = <<>> THEN Zero
    ELSE IF a.neg = b.neg
    THEN QuotientStripped(a.m, b.m, a.e - b.e, Min(LowZeroLimbs(a.m), LowZeroLimbs(b.m)))
    ELSE Negated(QuotientStripped(a.m, b.m, a.e - b.e,
                                  Min(LowZeroLimbs(a.m), LowZeroLimbs(b.m))))

\* a > b for a float b > 0
FloatAbove(a, b) ==
    /\ IsPositive(a)
    /\ \/ a.e > b.e
       \/ a.e = b.e /\ Cmp(a.m, b.m) > 0

\* d / s > k for floats s > 0 and k > 0; the quotient of a d <= 0 is not
QuotientAbove(d, s, k) == IsPositive(d) /\ FloatAbove(FloatDiv(d, s), k)

(***************************************************************************)
(* statistics.mean and statistics.stdev of floats.  Both form the exact    *)
(* sum and sum of squares of the data as fractions (statistics._sum, _ss)  *)
(* and round once: mean to float(total / n), stdev to the float nearest to *)
(* the square root of the exact sample variance (_float_sqrt_of_frac).     *)
(* A sample is a sequence of entries q, x, c: the float x, computed from   *)
(* the quote q, occurs c times.                                            *)
(***************************************************************************)
\* the elements of a finite set, in some order
RECURSIVE SeqOf(_)
SeqFrom(S, x) == <<x>> \o SeqOf(S \ {x})

SeqOf(S) == IF S = {} THEN <<>> ELSE SeqFrom(S, CHOOSE x \in S : TRUE)

SampleSize(ws) == Sum([k \in DOMAIN ws |-> ws[k].c])

\* the smallest exponent of the sample
MinExp(ws) == CHOOSE e \in {ws[k].x.e : k \in DOMAIN ws} : \A k \in DOMAIN ws : ws[k].x.e >= e

\* n, the sum S * 2^e and the sum of squares SS * 2^(2e) of the sample
FloatMoments(ws, e) ==
    [n |-> SampleSize(ws), e |-> e,
     S |-> SumNat([k \in DOMAIN ws |-> MulSmall(Aligned(ws[k].x, e), ws[k].c)]),
     SS |-> SumNat([k \in DOMAIN ws |-> MulSmall(Square(Aligned(ws[k].x, e)), ws[k].c)])]

MeanRounded(w, e) == Round(w.q, e, w.r # 0)

MeanOf(mo) == MeanRounded(DivSmall(ShiftLimbs(mo.S, 1), mo.n), mo.e - LIMB_BITS)

\* statistics.mean(sample) of positive floats
mean(ws) == MeanOf(FloatMoments(ws, MinExp(ws)))

RootRounded(root, inexact, e) == Round(root.q, e, inexact \/ root.r # <<>>)

\* the root of W \div 2^sh, sh even
RootTrimmed(W, inexact, e, sh) ==
    RootRounded(Root8(ShiftRight(W, sh)), inexact \/ ~LowZero(W, sh), e + sh \div 2)

\* w.q has more than 120 binary digits, of which the upper 119 or 120 are kept
RootOfQuotient(w, e) == RootTrimmed(w.q, w.r # 0, e, 2 * ((BitLen(w.q) - 119) \div 2))

RootShifted(Q, d, e, j) == RootOfQuotient(DivSmall(ShiftLimbs(Q, 2 * j), d), e - LIMB_BITS * j)

\* the float nearest to sqrt(Q / d) * 2^e, for d <= LIMB: Q is scaled to ten
\* limbs or more first, and the root taken to 60 binary digits
RootOf(Q, d, e) ==
    IF Q = <<>> THEN Zero
    ELSE RootShifted(Q, d, e, IF Len(Q) >= 10 THEN 0 ELSE (11 - Len(Q)) \div 2)

\* the variance is (n * SS - S * S) / (n * (n - 1)), exactly
StdevOf(mo) == RootOf(Sub(MulSmall(mo.SS, mo.n), Square(mo.S)), mo.n * (mo.n - 1), mo.e)

\* statistics.stdev(sample) of positive floats, at least two
stdev(ws) == StdevOf(FloatMoments(ws, MinExp(ws)))

(***************************************************************************)
(* Alert (models.py) and the detectors' result                             *)
(***************************************************************************)
Alert(ts, isin, valeur, type, severity, label) ==
    [timestamp |-> ts, isin |-> isin, valeur |-> valeur,
     anomaly_type |-> type, severity |-> severity, label |-> label]

AlertFor(current, type, severity, label) ==
    Alert(current.timestamp, current.isin, current.valeur, type, severity, label)

Returns(alerts) == [raised |-> FALSE, alerts |-> alerts]

Raises == [raised |-> TRUE, alerts |-> <<>>]

(***************************************************************************)
(* Detector 1: volume spikes                                               *)
(***************************************************************************)
\* faulty variant: a falling volume counts as a delta like any other
VolumeDeltasSigned(history) ==
    [i \in 1..(Len(history) - 1) |-> history[i + 1].volume - history[i].volume]

\* the per-step volume deltas of the window, negative ones dropped
VolumeDeltas(history) ==
    LET all == [i \in 1..(Len(history) - 1) |->
                    history[i + 1].volume - history[i].volume]
        NonNeg(d) == d >= 0
    IN  SelectSeq(all, NonNeg)

\* faulty variant: a spike that is not critical is only INFO
VolumeSeverityMild(deltas, current_delta) ==
    IF ZExceeds(deltas, current_delta, CRITICAL_SIGMA) THEN "CRITICAL" ELSE "INFO"

VolumeSeverity(deltas, current_delta) ==
    IF ZExceeds(deltas, current_delta, CRITICAL_SIGMA) THEN "CRITICAL" ELSE "WARNING"

detect_volume_spike(current, history) ==
    IF Len(history) < MIN_HISTORY + 1 THEN Returns(<<>>)
    ELSE LET deltas == VolumeDeltas(history)
             current_delta == current.volume - history[Len(history) - 1].volume
         IN  IF Len(deltas) < MIN_HISTORY THEN Returns(<<>>)
             ELSE IF MeanOverflows(deltas) THEN Raises
             ELSE IF StdevOverflows(deltas) THEN Raises
             ELSE IF StdevZero(SmallParts(deltas)) THEN Returns(<<>>)
             ELSE IF current_delta <= 0 THEN Returns(<<>>)
             ELSE IF ZOverflows(deltas, current_delta) THEN Raises
             ELSE IF ZExceeds(SmallParts(deltas), SmallPart(current_delta),
                              VOLUME_SIGMA_THRESHOLD)
                  THEN IF BandOverflows(deltas) THEN Raises
                       ELSE Returns(<<AlertFor(current, "VOLUME_SPIKE",
                                               VolumeSeverity(deltas, current_delta),
                                               "")>>)
                  ELSE Returns(<<>>)

(***************************************************************************)
(* Detector 2: price anomalies                                             *)
(***************************************************************************)
\* faulty variant: CRITICAL only above 8 %
PriceSeverityStrict(pct) == IF pct > CRITICAL_PCT THEN "CRITICAL" ELSE "WARNING"

PriceSeverity(pct) == IF pct >= CRITICAL_PCT THEN "CRITICAL" ELSE "WARNING"

PriceDirection(change) == IF change > 0 THEN "HAUSSE" ELSE "BAISSE"

\* (a) large variation from reference
PriceChangeAlerts(current) ==
    IF current.close > 0 /\ current.last > 0
          /\ Abs(current.change) >= PRICE_CHANGE_THRESHOLD
    THEN <<AlertFor(current, "PRICE_ANOMALY", PriceSeverity(Abs(current.change)),
                    PriceDirection(current.change))>>
    ELSE <<>>

\* faulty variant: a move of exactly 2 % is not rapid
RapidMoveStrict(prev_last, last) ==
    100 * Abs(last - prev_last) > RAPID_MOVE_PCT * prev_last

\* abs(last - prev_last) / prev_last * 100 >= 2.0
RapidMove(prev_last, last) ==
    100 * Abs(last - prev_last) >= RAPID_MOVE_PCT * prev_last

\* (b) rapid intra-session move
RapidMoveAlerts(current, history) ==
    IF Len(history) >= 2
    THEN LET prev == history[Len(history) - 1]
         IN  IF prev.last > 0 /\ current.last > 0 /\ RapidMove(prev.last, current.last)
             THEN <<AlertFor(current, "RAPID_PRICE_MOVE", "WARNING", "")>>
             ELSE <<>>
    ELSE <<>>

detect_price_anomaly(current, history) ==
    Returns(PriceChangeAlerts(current) \o RapidMoveAlerts(current, history))

(***************************************************************************)
(* Detector 3: suspicious patterns                                         *)
(***************************************************************************)
\* faulty variant: a ratio of exactly 5 counts as an imbalance
ImbalanceLabelInclusive(ask_qty, bid_qty) ==
    IF ask_qty > 0 /\ bid_qty > 0
    THEN IF bid_qty >= ORDER_IMBALANCE_RATIO * ask_qty THEN "VENTE"
         ELSE IF ask_qty >= ORDER_IMBALANCE_RATIO * bid_qty THEN "ACHAT"
         ELSE "NONE"
    ELSE "NONE"

\* faulty variant: the inverse ratio is compared with twice the threshold
ImbalanceLabelLopsided(ask_qty, bid_qty) ==
    IF ask_qty > 0 /\ bid_qty > 0
    THEN IF bid_qty > ORDER_IMBALANCE_RATIO * ask_qty THEN "VENTE"
         ELSE IF ask_qty > 2 * ORDER_IMBALANCE_RATIO * bid_qty THEN "ACHAT"
         ELSE "NONE"
    ELSE "NONE"

\* order imbalance: bid_qty / ask_qty > 5, else ask_qty / bid_qty > 5
ImbalanceLabel(ask_qty, bid_qty) ==
    IF ask_qty > 0 /\ bid_qty > 0
    THEN IF bid_qty > ORDER_IMBALANCE_RATIO * ask_qty THEN "VENTE"
         ELSE IF ask_qty > ORDER_IMBALANCE_RATIO * bid_qty THEN "ACHAT"
         ELSE "NONE"
    ELSE "NONE"

OrderImbalanceAlerts(current) ==
    LET l == ImbalanceLabel(current.ask_qty, current.bid_qty)
    IN  IF l = "NONE" THEN <<>>
        ELSE <<AlertFor(current, "ORDER_IMBALANCE", "WARNING", l)>>

ValidSpread(h) == h.ask > 0 /\ h.bid > h.ask

\* the prices a spread is computed from
Quote(h) == <<h.ask, h.bid>>

\* (bid - ask) / ask * 100
spread_pct(q) ==
    FloatMul(FloatDiv(FloatSub(FloatOf(q[2]), FloatOf(q[1])), FloatOf(q[1])), FloatOf(100))

SpreadEntries(quotes, qs) ==
    [k \in DOMAIN qs |->
        [q |-> qs[k], x |-> spread_pct(qs[k]),
         c |-> Cardinality({i \in DOMAIN quotes : quotes[i] = qs[k]})]]

\* the spreads of a list of quotes, one entry for each quote that occurs
SpreadSample(quotes) == SpreadEntries(quotes, SeqOf(Range(quotes)))

\* z = (spread_pct - m) / s and z > SPREAD_SIGMA_THRESHOLD, after s > 0
SpreadOutlier(x, m, s) ==
    IsPositive(s) /\ QuotientAbove(FloatSub(x, m), s, FloatOf(SPREAD_SIGMA_THRESHOLD))

SpreadOutlierOf(x, ws) == SpreadOutlier(x, mean(ws), stdev(ws))

\* faulty variant: the current snapshot is one of the samples
EarlierWithCurrent(history) == history

\* history[:-1]
Earlier(history) == SubSeq(history, 1, Len(history) - 1)

\* hist_spreads, from the entries of history[:-1] with a valid spread
HistQuotes(prior) == [i \in DOMAIN prior |-> Quote(prior[i])]

SpreadJudged(current, quotes) ==
    IF /\ Len(quotes) >= MIN_HISTORY
       /\ SpreadOutlierOf(spread_pct(Quote(current)), SpreadSample(quotes))
    THEN <<AlertFor(current, "SPREAD_ANOMALY", "INFO", "")>>
    ELSE <<>>

SpreadAlerts(current, history) ==
    IF ValidSpread(current)
    THEN SpreadJudged(current, HistQuotes(SelectSeq(Earlier(history), ValidSpread)))
    ELSE <<>>

\* faulty variant: a quantity of exactly 1000 is already large
SpoofedFromThousand(prev_qty, curr_qty) ==
    /\ prev_qty > 0
    /\ curr_qty > 0
    /\ curr_qty > SPOOF_RATIO * prev_qty
    /\ curr_qty >= SPOOF_MIN_QTY

\* curr_qty / prev_qty > 10 and curr_qty > 1000
Spoofed(prev_qty, curr_qty) ==
    /\ prev_qty > 0
    /\ curr_qty > 0
    /\ curr_qty > SPOOF_RATIO * prev_qty
    /\ curr_qty > SPOOF_MIN_QTY

SpoofingAlerts(current, history) ==
    IF Len(history) >= 2
    THEN LET prev == history[Len(history) - 1]
         IN  (IF Spoofed(prev.ask_qty, current.ask_qty)
              THEN <<AlertFor(current, "PATTERN_SUSPECT", "CRITICAL", "ACHAT")>>
              ELSE <<>>)
             \o
             (IF Spoofed(prev.bid_qty, current.bid_qty)
              THEN <<AlertFor(current, "PATTERN_SUSPECT", "CRITICAL", "VENTE")>>
              ELSE <<>>)
    ELSE <<>>

detect_suspicious_patterns(current, history) ==
    Returns(OrderImbalanceAlerts(current) \o SpreadAlerts(current, history)
            \o SpoofingAlerts(current, history))

(***************************************************************************)
(* AnomalyEngine: rolling history per security, cycle counter, alerts      *)
(***************************************************************************)
ISINS == {"A", "B"}

\* AnomalyEngine.__init__
AnomalyEngine_init ==
    [history |-> [s \in ISINS |-> <<>>], snapshot_count |-> 0, alerts |-> <<>>]

\* faulty variant: the snapshot is put at the old end (appendleft)
AppendLeft(h, snap) ==
    IF Len(h) >= HISTORY_MAXLEN THEN <<snap>> \o SubSeq(h, 1, Len(h) - 1)
    ELSE <<snap>> \o h

\* deque(maxlen=200).append
AppendBounded(h, snap) ==
    IF Len(h) >= HISTORY_MAXLEN THEN Append(Tail(h), snap) ELSE Append(h, snap)

\* for snap in snapshots: self.history[snap.isin].append(snap)
RECURSIVE RecordAll(_, _)
RecordAll(history, snapshots) ==
    IF snapshots = <<>> THEN history
    ELSE RecordAll([history EXCEPT ![Head(snapshots).isin] =
                        AppendBounded(@, Head(snapshots))],
                   Tail(snapshots))

\* faulty variant: the engine turns active one cycle early
EngineActiveEarly(snapshot_count) == snapshot_count >= MIN_HISTORY - 1

\* if self.snapshot_count >= MIN_HISTORY
EngineActive(snapshot_count) == snapshot_count >= MIN_HISTORY

\* faulty variant: the per-security length check is missing
HistoryReadyAlways(hist) == TRUE

\* if len(hist) >= MIN_HISTORY
HistoryReady(hist) == Len(hist) >= MIN_HISTORY

\* the three detectors on one snapshot, in the order ingest calls them
\* new_alerts += v; new_alerts += p; new_alerts += s, unless one of them raised
Collected(v, p, s) ==
    IF v.raised \/ p.raised \/ s.raised THEN Raises
    ELSE Returns(v.alerts \o p.alerts \o s.alerts)

RunDetectors(snap, hist) ==
    Collected(detect_volume_spike(snap, hist),
              detect_price_anomaly(snap, hist),
              detect_suspicious_patterns(snap, hist))

\* hist = list(self.history[snap.isin]), read once the whole batch is recorded
DetectorHistory(history, snap) == history[snap.isin]

\* what one snapshot of the batch contributes once the batch is recorded
Evaluate(snapshot_count, history, snap) ==
    IF EngineActive(snapshot_count) /\ HistoryReady(DetectorHistory(history, snap))
    THEN RunDetectors(snap, DetectorHistory(history, snap))
    ELSE Returns(<<>>)

\* faulty variant: ingest returns the whole accumulated list
IngestReturnAll(old_alerts, new_alerts) == old_alerts \o new_alerts

\* return new_alerts
IngestReturn(old_alerts, new_alerts) == new_alerts

\* faulty variant: the alerts are added to self.alerts snapshot by snapshot, so
\* a call that raises leaves those of the snapshots evaluated before it
IngestResultPartial(e, count, history, evals) ==
    LET raised == \E i \in DOMAIN evals : evals[i].raised
        stop == IF raised THEN CHOOSE i \in DOMAIN evals :
                                  /\ evals[i].raised
                                  /\ \A j \in 1..(i - 1) : ~evals[j].raised
                ELSE Len(evals) + 1
        new_alerts == Concat([i \in 1..(stop - 1) |-> evals[i].alerts])
    IN  [engine |-> [history |-> history,
                     snapshot_count |-> count,
                     alerts |-> e.alerts \o new_alerts],
         returned |-> IF raised THEN <<>> ELSE new_alerts,
         raised |-> raised]

\* faulty variant: a call that raises leaves the engine as it found it
IngestResultRollback(e, count, history, evals) ==
    LET raised == \E i \in DOMAIN evals : evals[i].raised
        new_alerts == Concat([i \in DOMAIN evals |-> evals[i].alerts])
    IN  [engine |-> IF raised THEN e
                    ELSE [history |-> history,
                          snapshot_count |-> count,
                          alerts |-> e.alerts \o new_alerts],
         returned |-> IF raised THEN <<>> ELSE IngestReturn(e.alerts, new_alerts),
         raised |-> raised]

\* AnomalyEngine.ingest: the engine after the call, the list returned and
\* whether the call raised.  A detector exception propagates out of ingest:
\* the counter and the histories are already updated, self.alerts.extend is
\* not reached and nothing is returned.
IngestResult(e, count, history, evals) ==
    LET raised == \E i \in DOMAIN evals : evals[i].raised
        new_alerts == Concat([i \in DOMAIN evals |-> evals[i].alerts])
    IN  [engine |-> [history |-> history,
                     snapshot_count |-> count,
                     alerts |-> IF raised THEN e.alerts ELSE e.alerts \o new_alerts],
         returned |-> IF raised THEN <<>> ELSE IngestReturn(e.alerts, new_alerts),
         raised |-> raised]

\* the loop over the batch, once the counter is count and the batch is recorded
IngestEvaluate(e, snapshots, count, history) ==
    IngestResult(e, count, history,
                 [i \in 1..Len(snapshots) |-> Evaluate(count, history, snapshots[i])])

\* faulty variant: a call with an empty batch is not counted
CycleCountIfAny(snapshot_count, snapshots) ==
    IF snapshots = <<>> THEN snapshot_count ELSE snapshot_count + 1

\* self.snapshot_count += 1
CycleCount(snapshot_count, snapshots) == snapshot_count + 1

ingest(e, snapshots) ==
    IngestEvaluate(e, snapshots, CycleCount(e.snapshot_count, snapshots),
                   RecordAll(e.history, snapshots))

(***************************************************************************)
(* Report aggregation                                                      *)
(***************************************************************************)
\* faulty variant: each key is counted once
CountByPresence(alerts, field) ==
    [k \in {alerts[i][field] : i \in DOMAIN alerts} |-> 1]

\* by_type / by_severity: a dict holding a count for each key that occurs
CountBy(alerts, field) ==
    [k \in {alerts[i][field] : i \in DOMAIN alerts} |->
        Cardinality({i \in DOMAIN alerts : alerts[i][field] = k})]

\* stock_counts.items(): one (valeur, count) per name, in first-seen order
RECURSIVE FirstSeen(_)
FirstSeen(alerts) ==
    IF alerts = <<>> THEN <<>>
    ELSE IF Len(alerts) = 1 THEN <<alerts[1].valeur>>
    ELSE LET half == Len(alerts) \div 2
             first == FirstSeen(SubSeq(alerts, 1, half))
             rest == FirstSeen(SubSeq(alerts, half + 1, Len(alerts)))
         IN  first \o SelectSeq(rest, LAMBDA v : v \notin Range(first))

StockCounts(alerts) ==
    LET names == FirstSeen(alerts)
    IN  [i \in 1..Len(names) |->
            [valeur |-> names[i],
             count |-> Cardinality({j \in DOMAIN alerts : alerts[j].valeur = names[i]})]]

\* faulty variant: an unstable sort, an item goes before those of equal count
InsertByCountFirst(sorted, item) ==
    LET before == SelectSeq(sorted, LAMBDA x : x.count > item.count)
        after == SelectSeq(sorted, LAMBDA x : x.count <= item.count)
    IN  before \o <<item>> \o after

\* sorted(items, key=lambda x: -x[1]): stable, so ties keep their order
InsertByCount(sorted, item) ==
    LET before == SelectSeq(sorted, LAMBDA x : x.count >= item.count)
        after == SelectSeq(sorted, LAMBDA x : x.count < item.count)
    IN  before \o <<item>> \o after

RECURSIVE SortByCount(_)
SortByCount(items) ==
    IF items = <<>> THEN <<>>
    ELSE InsertByCount(SortByCount(SubSeq(items, 1, Len(items) - 1)), Last(items))

TopFlagged(alerts) ==
    LET sorted == SortByCount(StockCounts(alerts))
    IN  SubSeq(sorted, 1, Min(TOP_N, Len(sorted)))

\* AnomalyReport(...), as built at the end of get_report and detect_anomalies
AnomalyReport(now, total, alerts) ==
    [timestamp |-> now,
     total_alerts |-> total,
     alerts |-> alerts,
     by_type |-> CountBy(alerts, "anomaly_type"),
     by_severity |-> CountBy(alerts, "severity"),
     top_flagged |-> TopFlagged(alerts)]

\* AnomalyEngine.get_report, called when the clock reads now
get_report(e, now) == AnomalyReport(now, Len(e.alerts), e.alerts)

\* faulty variant: reporting drains the alert list
AfterReportDrains(e) == [e EXCEPT !.alerts = <<>>]

\* faulty variant: reporting starts the histories afresh
AfterReportForgets(e) == [e EXCEPT !.history = [s \in ISINS |-> <<>>]]

\* get_report leaves the engine as it is
AfterReport(e) == e

(***************************************************************************)
(* Stateless analysis of one market snapshot: detect_anomalies             *)
(* A StockData keeps isin, valeur, quantite, variation, qty_a, qty_v,      *)
(* achat and vente, the fields the checks read.                            *)
(***************************************************************************)
StockAlert(now, s, type, severity, label) ==
    Alert(now, s.isin, s.valeur, type, severity, label)

\* faulty variant: a security with a session volume of 0 counts as active
ActiveFromZero(stocks) == SelectSeq(stocks, LAMBDA s : s.quantite >= 0)

\* active = [s for s in stocks if s.quantite > 0]
Active(stocks) == SelectSeq(stocks, LAMBDA s : s.quantite > 0)

\* 1. cross-sectional volume spikes: quantite > mean + 3 * std
CrossVolumeAlerts(now, active) ==
    LET volumes == [i \in 1..Len(active) |-> active[i].quantite]
        One(s) ==
            IF ZExceeds(volumes, s.quantite, VOLUME_SIGMA_THRESHOLD)
            THEN <<StockAlert(now, s, "VOLUME_SPIKE",
                              VolumeSeverity(volumes, s.quantite), "")>>
            ELSE <<>>
    IN  IF Len(volumes) >= 2 /\ ~StdevZero(SmallParts(volumes))
        THEN Concat([i \in 1..Len(active) |-> One(active[i])])
        ELSE <<>>

\* 2. price anomalies: abs(variation) >= 5
CrossPriceAlerts(now, active) ==
    LET One(s) ==
            IF Abs(s.variation) >= PRICE_CHANGE_THRESHOLD
            THEN <<StockAlert(now, s, "PRICE_ANOMALY", PriceSeverity(Abs(s.variation)),
                              PriceDirection(s.variation))>>
            ELSE <<>>
    IN  Concat([i \in 1..Len(active) |-> One(active[i])])

\* 3a. order imbalance: qty_v / qty_a > 5, else qty_a / qty_v > 5
CrossImbalanceAlerts(now, active) ==
    LET One(s) ==
            LET l == ImbalanceLabel(s.qty_a, s.qty_v)
            IN  IF l = "NONE" THEN <<>>
                ELSE <<StockAlert(now, s, "ORDER_IMBALANCE", "WARNING", l)>>
    IN  Concat([i \in 1..Len(active) |-> One(active[i])])

\* the quotes whose spread has z = (sp - mean_sp) / std_sp above 3, after std_sp > 0
SpreadOutliers(ws, m, s) ==
    IF IsPositive(s)
    THEN {ws[k].q : k \in {j \in DOMAIN ws :
            QuotientAbove(FloatSub(ws[j].x, m), s, FloatOf(SPREAD_SIGMA_THRESHOLD))}}
    ELSE {}

SpreadOutliersOf(ws) == SpreadOutliers(ws, mean(ws), stdev(ws))

CrossSpreadFlagged(now, valid, outliers) ==
    Concat([i \in 1..Len(valid) |->
        IF <<valid[i].achat, valid[i].vente>> \in outliers
        THEN <<StockAlert(now, valid[i], "SPREAD_ANOMALY", "INFO", "")>>
        ELSE <<>>])

CrossSpreadJudged(now, valid) ==
    IF Len(valid) >= 3
    THEN CrossSpreadFlagged(now, valid, SpreadOutliersOf(SpreadSample(
             [i \in DOMAIN valid |-> <<valid[i].achat, valid[i].vente>>])))
    ELSE <<>>

\* 3b. spread anomaly across the securities with achat > 0 and vente > achat
CrossSpreadAlerts(now, active) ==
    CrossSpreadJudged(now, SelectSeq(active, LAMBDA s : s.achat > 0 /\ s.vente > s.achat))

\* the alerts of detect_anomalies, in the order the code appends them
StatelessAlerts(now, stocks) ==
    LET active == Active(stocks)
    IN  CrossVolumeAlerts(now, active) \o CrossPriceAlerts(now, active)
        \o CrossImbalanceAlerts(now, active) \o CrossSpreadAlerts(now, active)

\* the volume check of detect_anomalies raises OverflowError: in
\* statistics.mean(volumes), in statistics.stdev(volumes), or in
\* mean_v + VOLUME_SIGMA_THRESHOLD * std_v when std_v > 0
VolumesRaise(volumes) ==
    /\ Len(volumes) >= 2
    /\ \/ MeanOverflows(volumes)
       \/ StdevOverflows(volumes)
       \/ BandOverflows(volumes) /\ ~StdevZero(SmallParts(volumes))

StatelessRaises(stocks) ==
    VolumesRaise([i \in 1..Len(Active(stocks)) |-> Active(stocks)[i].quantite])

\* detect_anomalies, called when the clock reads now (defined when it does not raise)
ReportOf(now, alerts) == AnomalyReport(now, Len(alerts), alerts)

detect_anomalies(stocks, now) == ReportOf(now, StatelessAlerts(now, stocks))

(***************************************************************************)
(* State                                                                   *)
(***************************************************************************)
VARIABLES
    heap,       \* the AnomalyEngine objects alive, by identity
    engine,     \* the module global `engine` of api.py: the identity it is bound to
    running,    \* the module global _monitor_running
    mpc,        \* the _live_monitor task: "none", "created" (not yet run), "sleep"
                \* (awaiting asyncio.sleep), "ready" (the sleep is over, the task
                \* is scheduled to resume) or "cancelled"
    lastCall,       \* the last call made and what it gave back to its caller
    reports,    \* the reports get_report returned since the engine last changed
    stateless,  \* the reports detect_anomalies returned last (at most one)
    log         \* per security, every snapshot recorded into the bound engine

vars == <<heap, engine, running, mpc, lastCall, reports, stateless, log>>

\* the engine the global is bound to
Visible == heap[engine]

EngineIds == 0..2

\* faulty variant: the monitor keeps the engine object created at import
MonitorTargetBoot(id) == 0

\* `engine.ingest(snapshots)` in _live_monitor reads the global at each call:
\* the object the monitor works on while the global is bound to id
MonitorTarget(id) == id

MonitorAlive == mpc \in {"created", "sleep", "ready"}

\* the event loop can run the task: it was just created or its sleep is over
MonitorRunnable == mpc \in {"created", "ready"}

\* the engine objects something still refers to once the global is bound to id
Referenced(id) == {id} \cup (IF MonitorAlive THEN {MonitorTarget(id)} ELSE {})

\* the object AnomalyEngine() allocates while the current ones are still referenced
NewId == CHOOSE i \in EngineIds :
            /\ i \notin Referenced(engine)
            /\ \A j \in EngineIds : j \notin Referenced(engine) => i <= j

Outcome(op, batch, returned, raised) ==
    [op |-> op, batch |-> batch, returned |-> returned, raised |-> raised,
     pre_count |-> Visible.snapshot_count, pre_alerts |-> Len(Visible.alerts)]

EmptyLog == [s \in ISINS |-> <<>>]

RECURSIVE LogAll(_, _)
LogAll(l, snapshots) ==
    IF snapshots = <<>> THEN l
    ELSE LogAll([l EXCEPT ![Head(snapshots).isin] = Append(@, Head(snapshots))],
                Tail(snapshots))

\* keep the two most recent
Keep2(s) == IF Len(s) > 2 THEN SubSeq(s, Len(s) - 1, Len(s)) ELSE s

(***************************************************************************)
(* Operations                                                              *)
(***************************************************************************)
\* a caller holding the global calls engine.ingest(batch)
IngestCalled(batch, r) ==
    /\ heap' = [heap EXCEPT ![engine] = r.engine]
    /\ lastCall' = Outcome("ingest", batch, r.returned, r.raised)
    /\ reports' = <<>>
    /\ log' = LogAll(log, batch)
    /\ UNCHANGED <<engine, running, mpc, stateless>>

Ingest(batch) == IngestCalled(batch, ingest(Visible, batch))

\* engine.get_report() (also the body of GET /api/stream/alerts)
GetReport(now) ==
    /\ heap' = [heap EXCEPT ![engine] = AfterReport(@)]
    /\ reports' = Keep2(Append(reports, get_report(Visible, now)))
    /\ lastCall' = Outcome("report", <<>>, <<>>, FALSE)
    /\ UNCHANGED <<engine, running, mpc, stateless, log>>

\* detect_anomalies(stocks) (the body of GET /api/anomalies, which answers 502
\* when it raises)
DetectAnomalies(stocks, now) ==
    /\ stateless' = IF StatelessRaises(stocks) THEN <<>>
                    ELSE <<detect_anomalies(stocks, now)>>
    /\ lastCall' = Outcome("detect", <<>>, <<>>, StatelessRaises(stocks))
    /\ UNCHANGED <<heap, engine, running, mpc, reports, log>>

\* the dict GET /api/stream/status answers with
stream_status(e, run, report) ==
    [running |-> run,
     snapshots_ingested |-> e.snapshot_count,
     total_alerts |-> report.total_alerts,
     by_type |-> report.by_type,
     by_severity |-> report.by_severity,
     top_flagged |-> report.top_flagged]

\* GET /api/stream/status: one call of get_report, then the dict
StreamStatus(now) ==
    /\ heap' = [heap EXCEPT ![engine] = AfterReport(@)]
    /\ lastCall' = Outcome("status", <<>>,
                           <<stream_status(Visible, running, get_report(Visible, now))>>,
                           FALSE)
    /\ UNCHANGED <<engine, running, mpc, reports, stateless, log>>

\* faulty variant: a reset in place that forgets the alert list
ResetKeepsAlerts(old) == [AnomalyEngine_init EXCEPT !.alerts = old.alerts]

\* what stream_reset binds the global to
ResetEngine(old) == AnomalyEngine_init

\* POST /api/stream/reset: engine = AnomalyEngine()
StreamReset ==
    LET new == NewId
        kept == Referenced(new) \ {new}
    IN  /\ engine' = new
        /\ heap' = [i \in {new} \cup kept |->
                        IF i = new THEN ResetEngine(Visible) ELSE heap[i]]
        /\ lastCall' = Outcome("reset", <<>>, <<>>, FALSE)
        /\ reports' = <<>>
        /\ log' = EmptyLog
        /\ UNCHANGED <<running, mpc, stateless>>

(***************************************************************************)
(* The live monitor (api.py).  The event loop runs one coroutine at a time *)
(* and switches only at an await: _live_monitor awaits in asyncio.sleep    *)
(* alone and the endpoints not at all, so one pass of the loop body and    *)
(* one endpoint call are each one step.                                    *)
(***************************************************************************)
\* faulty variant: an exception ends the loop
AfterPassStops(raised) == IF raised THEN "cancelled" ELSE "sleep"

\* where the task is after one pass of the loop body: `except Exception: pass`
\* swallows what fetch_snapshots or ingest raised, then await asyncio.sleep
AfterPass(raised) == "sleep"

\* the task runs up to its next await: on its first run it sets the flag;
\* fetch_snapshots() returned batch and engine.ingest(batch) ran; an exception
\* of ingest is swallowed by `except Exception: pass`
MonitorIngested(batch, r) ==
    /\ MonitorRunnable
    /\ running' = TRUE
    /\ mpc' = AfterPass(r.raised)
    /\ heap' = [heap EXCEPT ![MonitorTarget(engine)] = r.engine]
    /\ lastCall' = Outcome("monitor_ingest", batch, r.returned, r.raised)
    /\ reports' = <<>>
    /\ log' = LogAll(log, batch)
    /\ UNCHANGED <<engine, stateless>>

MonitorPoll(batch) == MonitorIngested(batch, ingest(heap[MonitorTarget(engine)], batch))

\* fetch_snapshots() raised: nothing is ingested, the loop goes on to sleep
MonitorFetchFails ==
    /\ MonitorRunnable
    /\ running' = TRUE
    /\ mpc' = AfterPass(TRUE)
    /\ lastCall' = Outcome("monitor_fetch_failed", <<>>, <<>>, TRUE)
    /\ UNCHANGED <<heap, engine, reports, stateless, log>>

\* asyncio.sleep(interval) is over: the loop schedules the task to resume
MonitorWakes ==
    /\ mpc = "sleep"
    /\ mpc' = "ready"
    /\ lastCall' = Outcome("monitor_wake", <<>>, <<>>, FALSE)
    /\ UNCHANGED <<heap, engine, running, reports, stateless, log>>

\* _monitor_running_stop at shutdown: clears the flag and cancels the task,
\* whose references are dropped
Shutdown ==
    /\ MonitorAlive
    /\ running' = FALSE
    /\ mpc' = "cancelled"
    /\ heap' = [i \in {engine} |-> heap[i]]
    /\ lastCall' = Outcome("shutdown", <<>>, <<>>, FALSE)
    /\ UNCHANGED <<engine, reports, stateless, log>>

(***************************************************************************)
(* Inputs                                                                  *)
(***************************************************************************)
Valeur(isin) == IF isin = "A" THEN "ALPHA" ELSE "BETA"

\* StockSnapshot (models.py): the fields the engine reads
Snapshot(isin, last, close, change, volume, ask, bid, ask_qty, bid_qty) ==
    [timestamp |-> 1, isin |-> isin, valeur |-> Valeur(isin),
     last |-> last, close |-> close, change |-> change, volume |-> volume,
     ask |-> ask, bid |-> bid, ask_qty |-> ask_qty, bid_qty |-> bid_qty]

\* a quiet snapshot with cumulative volume v
Quiet(isin, v) == Snapshot(isin, 100, 100, 0, v, 100, 101, 10, 10)

CalmA == Quiet("A", 1000)
CalmB == Quiet("B", 1000)
\* +6 % on the reference and on the previous quiet price
HotA == Snapshot("A", 106, 100, 6, 1000, 100, 101, 10, 10)
\* -9 % and six times more on the bid side than on the ask side
HotB == Snapshot("B", 91, 100, -9, 1000, 100, 101, 100, 600)
\* a volume whose mean overflows a float
PoisonA == Quiet("A", HUGE_VOLUME)

MainBatches ==
    {<<>>, <<CalmA>>, <<CalmA, CalmB>>, <<HotA, HotA>>, <<HotA, HotB>>,
     <<HotB>>, <<PoisonA, HotB>>}

(***************************************************************************)
(* Bounds                                                                  *)
(***************************************************************************)
MaxCycles == 4
MaxClock == 2

Clock == 1..MaxClock

(***************************************************************************)
(* Spec: one engine used through ingest and reset                          *)
(***************************************************************************)
Init ==
    /\ heap = [i \in {0} |-> AnomalyEngine_init]
    /\ engine = 0
    /\ running = FALSE
    /\ mpc = "none"
    /\ lastCall = [op |-> "init", batch |-> <<>>, returned |-> <<>>, raised |-> FALSE,
               pre_count |-> 0, pre_alerts |-> 0]
    /\ reports = <<>>
    /\ stateless = <<>>
    /\ log = EmptyLog

MainIngest ==
    \E b \in MainBatches : Visible.snapshot_count < MaxCycles /\ Ingest(b)

Next == MainIngest \/ StreamReset

Spec == Init /\ [][Next]_vars

(***************************************************************************)
(* SpecScenario: one security fed one snapshot per call                    *)
(***************************************************************************)
MaxScenarioCycles == 5

ScenarioVolumes == {1000, 2000, 50000}

ScenarioBatches == {<<Quiet("A", v)>> : v \in ScenarioVolumes}

ScenarioIngest ==
    \E b \in ScenarioBatches :
        Visible.snapshot_count < MaxScenarioCycles /\ Ingest(b)

NextScenario == ScenarioIngest

SpecScenario == Init /\ [][NextScenario]_vars

(***************************************************************************)
(* SpecFifo: one security fed past the capacity of its history; the n-th   *)
(* snapshot recorded carries the cumulative volume n                       *)
(***************************************************************************)
FifoOverrun == 4

Stamp(n) == Quiet("A", n)

FifoIngest ==
    LET n == Len(log["A"])
    IN  \E k \in 1..2 :
            /\ n + k <= HISTORY_MAXLEN + FifoOverrun
            /\ Ingest([i \in 1..k |-> Stamp(n + i)])

NextFifo == FifoIngest

SpecFifo == Init /\ [][NextFifo]_vars

(***************************************************************************)
(* SpecReports: the streaming report next to the stateless analysis        *)
(***************************************************************************)
MaxReportCycles == 3
MaxStocks == 2

\* StockData (models.py): the fields detect_anomalies reads
StockData(isin, quantite, variation, qty_a, qty_v, achat, vente) ==
    [isin |-> isin, valeur |-> Valeur(isin), quantite |-> quantite,
     variation |-> variation, qty_a |-> qty_a, qty_v |-> qty_v,
     achat |-> achat, vente |-> vente]

StockPool ==
    {StockData("A", 1000, 6, 100, 600, 100, 101),
     StockData("B", 5000, -9, 700, 100, 100, 102),
     StockData("B", 0, 9, 10, 10, 0, 0)}

\* sequences of at most MaxStocks different entries of the pool
StockBatches ==
    UNION {{q \in [1..n -> StockPool] : \A i, j \in 1..n : i # j => q[i] # q[j]} :
              n \in 0..MaxStocks}

ReportBatches == {<<HotA>>, <<HotA, HotB>>}

ReportsIngest ==
    \E b \in ReportBatches : Visible.snapshot_count < MaxReportCycles /\ Ingest(b)

ReportsGet == \E now \in Clock : GetReport(now)

ReportsDetect == \E stocks \in StockBatches, now \in Clock : DetectAnomalies(stocks, now)

NextReports == ReportsIngest \/ ReportsGet \/ ReportsDetect \/ StreamReset

SpecReports == Init /\ [][NextReports]_vars

(***************************************************************************)
(* SpecLive: the application with its monitor task and the reset endpoint  *)
(***************************************************************************)
MaxLiveCycles == 4

LiveBatches == {<<CalmA>>, <<HotA>>, <<HotA, HotB>>}

\* lifespan has created the monitor task
InitLive ==
    /\ heap = [i \in {0} |-> AnomalyEngine_init]
    /\ engine = 0
    /\ running = FALSE
    /\ mpc = "created"
    /\ lastCall = [op |-> "init", batch |-> <<>>, returned |-> <<>>, raised |-> FALSE,
                   pre_count |-> 0, pre_alerts |-> 0]
    /\ reports = <<>>
    /\ stateless = <<>>
    /\ log = EmptyLog

LivePoll ==
    \E b \in LiveBatches :
        /\ MonitorAlive
        /\ heap[MonitorTarget(engine)].snapshot_count < MaxLiveCycles
        /\ MonitorPoll(b)

NextLive == LivePoll \/ MonitorFetchFails \/ MonitorWakes \/ StreamReset \/ Shutdown

SpecLive == InitLive /\ [][NextLive]_vars

(***************************************************************************)
(* SpecStream: the stream endpoints read while the monitor ingests         *)
(***************************************************************************)
MaxStreamCycles == 4

\* the last one makes the volume detector raise on A after B was evaluated
StreamBatches == {<<HotA>>, <<HotA, HotB>>, <<HotB, PoisonA>>}

StreamPoll ==
    \E b \in StreamBatches :
        /\ MonitorAlive
        /\ heap[MonitorTarget(engine)].snapshot_count < MaxStreamCycles
        /\ MonitorPoll(b)

StreamStatusCall == \E now \in Clock : StreamStatus(now)

\* GET /api/stream/alerts: return engine.get_report()
StreamAlerts == \E now \in Clock : GetReport(now)

NextStream == StreamPoll \/ MonitorWakes \/ StreamStatusCall \/ StreamAlerts \/ StreamReset

SpecStream == InitLive /\ [][NextStream]_vars

(***************************************************************************)
(* SpecPrice: _detect_price_anomaly applied to a snapshot and its history  *)
(***************************************************************************)
MaxPriceHistory == 3

PriceLasts == {-100, 0, 100, 101, 102, 103, 106}
PriceCloses == {-100, 0, 100}
PriceChanges == {-9, -8, -6, -5, -4, 0, 4, 5, 6, 8, 9}
PricePrevLasts == {-100, 0, 100}

PricedSnapshot(price, ref, pct) ==
    Snapshot("A", price, ref, pct, 1000, 100, 101, 10, 10)

\* a history of n snapshots ending in current, the earlier ones at prev_last
PriceHistory(n, prev_price, current) ==
    [i \in 1..n |-> IF i = n THEN current ELSE PricedSnapshot(prev_price, 100, 0)]

PriceHistories ==
    {PriceHistory(n, prev_price, PricedSnapshot(price, ref, pct)) :
        n \in 1..MaxPriceHistory, prev_price \in PricePrevLasts, price \in PriceLasts,
        ref \in PriceCloses, pct \in PriceChanges}

PriceCalled(history) ==
    /\ lastCall' = Outcome("price", history,
                           detect_price_anomaly(Last(history), history).alerts, FALSE)
    /\ UNCHANGED <<heap, engine, running, mpc, reports, stateless, log>>

PriceCheck == \E history \in PriceHistories : PriceCalled(history)

NextPrice == PriceCheck

SpecPrice == Init /\ [][NextPrice]_vars

(***************************************************************************)
(* One record of the market feed and its two representations (scraper.py)  *)
(***************************************************************************)
Market(isin, price, ref, pct, vol, ask_price, bid_price, askQty, bidQty) ==
    [isin |-> isin, last |-> price, close |-> ref, change |-> pct, volume |-> vol,
     ask |-> ask_price, bid |-> bid_price, askQty |-> askQty, bidQty |-> bidQty]

\* fetch_snapshots: the StockSnapshot built from a record
SnapshotOf(m) ==
    Snapshot(m.isin, m.last, m.close, m.change, m.volume, m.ask, m.bid, m.askQty, m.bidQty)

\* fetch_market: the StockData built from a record
StockOf(m) ==
    StockData(m.isin, m.volume, m.change, m.askQty, m.bidQty, m.ask, m.bid)

\* the record with the two order quantities exchanged
Swapped(m) == [m EXCEPT !.askQty = m.bidQty, !.bidQty = m.askQty]

\* the history of a security past warm-up: two quiet snapshots, then current
WarmHistory(current) == <<Quiet(current.isin, 1000), Quiet(current.isin, 1000), current>>

\* the streaming detectors on the snapshot of a record
StreamingAlerts(m) == RunDetectors(SnapshotOf(m), WarmHistory(SnapshotOf(m))).alerts

\* detect_anomalies on the one stock of a record
SingleStockAlerts(m) == detect_anomalies(<<StockOf(m)>>, 1).alerts

(***************************************************************************)
(* SpecImbalance: the order-imbalance check of both modes on a record and  *)
(* on the record with its quantities exchanged                             *)
(***************************************************************************)
ImbalanceQuantities == {-10, 0, 10, 20, 99, 100, 101, 500, 501, 600}

ImbalanceVolumes == {0, 1000}

ImbalanceMarkets ==
    {Market("A", 100, 100, 0, v, 100, 101, a, b) :
        v \in ImbalanceVolumes, a \in ImbalanceQuantities, b \in ImbalanceQuantities}

ImbalanceStreaming ==
    \E m \in ImbalanceMarkets :
        /\ lastCall' = Outcome("imbalance_streaming", <<m, Swapped(m)>>,
                               <<StreamingAlerts(m), StreamingAlerts(Swapped(m))>>, FALSE)
        /\ UNCHANGED <<heap, engine, running, mpc, reports, stateless, log>>

ImbalanceStateless ==
    \E m \in ImbalanceMarkets :
        /\ lastCall' = Outcome("imbalance_stateless", <<m, Swapped(m)>>,
                               <<SingleStockAlerts(m), SingleStockAlerts(Swapped(m))>>, FALSE)
        /\ UNCHANGED <<heap, engine, running, mpc, reports, stateless, log>>

NextImbalance == ImbalanceStreaming \/ ImbalanceStateless

SpecImbalance == Init /\ [][NextImbalance]_vars

(***************************************************************************)
(* SpecVolume: _detect_volume_spike applied to a window, and to the same   *)
(* window with a larger last step                                          *)
(***************************************************************************)
\* the longest run of earlier steps: 27 of them with the current one make
\* the 28 deltas from which z can pass 5
MaxVolumeSteps == 27

VolumeLengths == {1, 2, 3, 10, 11, MaxVolumeSteps}

\* the earlier steps of a window: lo and hi in turn, n of them
Alternating(n, lo, hi) == [i \in 1..n |-> IF i % 2 = 1 THEN lo ELSE hi]

\* the same with the second step replaced by a fall of the cumulative volume
WithGlitch(steps) == [i \in DOMAIN steps |-> IF i = 2 THEN -3 ELSE steps[i]]

VolumeShapes ==
    UNION {{Alternating(n, 1, 2), Alternating(n, 50, 51), Alternating(n, 5, 5),
            WithGlitch(Alternating(n, 1, 2))} : n \in VolumeLengths}

VolumeSteps == {-5, 0, 1, 2, 5, 6, 8, 10, 20, 50, 100}

\* the snapshots whose cumulative volumes start at 1000 and move by steps
VolumeHistory(steps) ==
    [i \in 1..(Len(steps) + 1) |-> Quiet("A", 1000 + Sum(SubSeq(steps, 1, i - 1)))]

\* a window and the window that differs by a larger or equal last step
VolumeStepPairs == {p \in VolumeSteps \X VolumeSteps : p[1] <= p[2]}

VolumeCases ==
    {<<VolumeHistory(Append(base, p[1])), VolumeHistory(Append(base, p[2]))>> :
        base \in VolumeShapes, p \in VolumeStepPairs}

VolumeAlerts(history) == detect_volume_spike(Last(history), history).alerts

\* one call on one case
VolumeCheck ==
    \E c \in VolumeCases :
        /\ lastCall.op = "init"
        /\ lastCall' = Outcome("volume", c, <<VolumeAlerts(c[1]), VolumeAlerts(c[2])>>, FALSE)
        /\ UNCHANGED <<heap, engine, running, mpc, reports, stateless, log>>

NextVolume == VolumeCheck

SpecVolume == Init /\ [][NextVolume]_vars

(***************************************************************************)
(* SpecTop: the report built from an alert list naming many securities     *)
(***************************************************************************)
MaxNames == 12

SecurityNames ==
    <<"ATB", "BIAT", "BNA", "BT", "CARTHAGE", "DELICE", "ENNAKL",
      "MONOPRIX", "POULINA", "SAH", "SFBT", "STB", "TPR", "UIB">>

\* the i-th security to get an alert: not in alphabetical order
NameOf(i) == SecurityNames[((5 * i) % 13) + 1]

\* how many alerts the i-th of k securities gets
AlertCount(profile, k, i) ==
    CASE profile = "flat" -> 1
      [] profile = "mixed" -> (i % 3) + 1
      [] profile = "late" -> IF i = k THEN 3 ELSE 1
      [] profile = "falling" -> ((k - i) \div 2) + 1
      [] profile = "rising" -> ((i + 1) \div 2)

TopProfiles == {"flat", "mixed", "late", "falling", "rising"}

NamedAlert(i) == Alert(1, NameOf(i), NameOf(i), "PRICE_ANOMALY", "WARNING", "HAUSSE")

\* the alerts of each security together, in the order of the securities
Grouped(profile, k) ==
    Concat([i \in 1..k |-> [j \in 1..AlertCount(profile, k, i) |-> NamedAlert(i)]])

\* one alert of each security in turn, as long as it has alerts left
InRounds(profile, k) ==
    Concat([r \in 1..k |->
               SelectSeq([i \in 1..k |-> NamedAlert(i)],
                         LAMBDA a : \E i \in 1..k : /\ NameOf(i) = a.valeur
                                                    /\ AlertCount(profile, k, i) >= r)])

TopCases ==
    UNION {{Grouped(profile, k), InRounds(profile, k)} :
              profile \in TopProfiles, k \in 0..MaxNames}

\* the report both get_report and detect_anomalies build from their alerts
TopCheck ==
    \E alerts \in TopCases, now \in Clock :
        /\ lastCall.op = "init"
        /\ reports' = <<ReportOf(now, alerts)>>
        /\ lastCall' = Outcome("aggregate", alerts, <<>>, FALSE)
        /\ UNCHANGED <<heap, engine, running, mpc, stateless, log>>

NextTop == TopCheck

SpecTop == Init /\ [][NextTop]_vars

(***************************************************************************)
(* SpecModes: one record of the feed given to both modes                   *)
(***************************************************************************)
ModeLasts == {0, 100, 106}
ModeCloses == {0, 100}
ModeChanges == {-9, -5, 0, 4, 6, 8}
ModeVolumes == {0, 1000}
ModeQuantities == {<<10, 10>>, <<100, 600>>, <<600, 100>>, <<0, 600>>}

ModeMarkets ==
    {Market("A", price, ref, pct, v, 100, 101, q[1], q[2]) :
        price \in ModeLasts, ref \in ModeCloses, pct \in ModeChanges,
        v \in ModeVolumes, q \in ModeQuantities}

\* the streaming detectors past warm-up and detect_anomalies on the same record
ModesCompare ==
    \E m \in ModeMarkets :
        /\ lastCall' = Outcome("modes", <<m>>,
                               <<StreamingAlerts(m), SingleStockAlerts(m)>>, FALSE)
        /\ UNCHANGED <<heap, engine, running, mpc, reports, stateless, log>>

NextModes == ModesCompare

SpecModes == Init /\ [][NextModes]_vars

(***************************************************************************)
(* SpecRepeat: batches that carry a security more than once                *)
(***************************************************************************)
MaxRepeatCycles == 3

RepeatBatches ==
    {<<CalmA>>, <<CalmA, CalmB>>, <<HotA, CalmA>>, <<CalmA, HotA>>, <<HotB, CalmA, CalmB>>}

RepeatIngest ==
    \E b \in RepeatBatches : Visible.snapshot_count < MaxRepeatCycles /\ Ingest(b)

NextRepeat == RepeatIngest \/ StreamReset

SpecRepeat == Init /\ [][NextRepeat]_vars

(***************************************************************************)
(* SpecTwin: two engines fed side by side.  The two batches of a step      *)
(* carry the same snapshots of security A and differ in those of B         *)
(***************************************************************************)
MaxTwinCycles == 3

PoisonB == Quiet("B", HUGE_VOLUME)

TwinOwn == {<<>>, <<HotA>>}

TwinOthersLeft == {<<>>, <<HotB>>}

TwinOthersRight == {<<>>, <<CalmB, CalmB>>, <<PoisonB>>}

\* the left batch has A first, the right batch has A last
TwinBatches ==
    {<<own \o left, right \o own>> :
        own \in TwinOwn, left \in TwinOthersLeft, right \in TwinOthersRight}

\* engine 0 was given pair[1] and engine 1 was given pair[2]
TwinCalled(pair, r0, r1) ==
    /\ heap' = [heap EXCEPT ![0] = r0.engine, ![1] = r1.engine]
    /\ lastCall' = Outcome("twin", pair, <<r0.returned, r1.returned>>,
                           r0.raised \/ r1.raised)
    /\ UNCHANGED <<engine, running, mpc, reports, stateless, log>>

TwinIngest ==
    \E pair \in TwinBatches :
        /\ heap[0].snapshot_count < MaxTwinCycles
        /\ TwinCalled(pair, ingest(heap[0], pair[1]), ingest(heap[1], pair[2]))

InitTwin ==
    /\ heap = [i \in {0, 1} |-> AnomalyEngine_init]
    /\ engine = 0
    /\ running = FALSE
    /\ mpc = "none"
    /\ lastCall = [op |-> "init", batch |-> <<>>, returned |-> <<>>, raised |-> FALSE,
                   pre_count |-> 0, pre_alerts |-> 0]
    /\ reports = <<>>
    /\ stateless = <<>>
    /\ log = EmptyLog

NextTwin == TwinIngest

SpecTwin == InitTwin /\ [][NextTwin]_vars

(***************************************************************************)
(* SpecSpoof: _detect_suspicious_patterns applied to a snapshot whose      *)
(* order quantities differ from those of the snapshot before it            *)
(***************************************************************************)
MaxSpoofHistory == 3

SpoofPrevQuantities == {-5, 0, 99, 100, 150}

SpoofQuantities == {0, 600, 1000, 1001, 1500, 1501}

QuantitySnapshot(ask_qty, bid_qty) == Snapshot("A", 100, 100, 0, 1000, 100, 101, ask_qty, bid_qty)

\* n snapshots: quiet ones, then prev, then current
SpoofHistory(n, prev, current) ==
    [i \in 1..n |-> IF i = n THEN current ELSE IF i = n - 1 THEN prev ELSE Quiet("A", 1000)]

SpoofHistories ==
    {SpoofHistory(n, QuantitySnapshot(pa, pb), QuantitySnapshot(ca, cb)) :
        n \in 2..MaxSpoofHistory, pa \in SpoofPrevQuantities, pb \in SpoofPrevQuantities,
        ca \in SpoofQuantities, cb \in SpoofQuantities}

SpoofCheck ==
    \E history \in SpoofHistories :
        /\ lastCall.op = "init"
        /\ lastCall' = Outcome("patterns", history,
                               detect_suspicious_patterns(Last(history), history).alerts,
                               FALSE)
        /\ UNCHANGED <<heap, engine, running, mpc, reports, stateless, log>>

NextSpoof == SpoofCheck

SpecSpoof == Init /\ [][NextSpoof]_vars

(***************************************************************************)
(* SpecSpread: _detect_suspicious_patterns applied to histories whose      *)
(* entries differ in their ask and bid prices                              *)
(***************************************************************************)
MaxSpreadHistory == 5

\* <<ask, bid>>: spreads of 1 %, 1 %, 3 %, and two that are not valid
SpreadEarlierQuotes == {<<100, 101>>, <<200, 202>>, <<100, 103>>, <<0, 5>>, <<100, 99>>}

\* spreads of 1 %, 3 %, 4.5 %, 4.6 %, 10 %, and three that are not valid
SpreadCurrentQuotes ==
    {<<100, 101>>, <<100, 103>>, <<200, 209>>, <<1000, 1046>>, <<100, 110>>,
     <<0, 5>>, <<100, 100>>, <<101, 100>>}

QuotedSnapshot(quote) == Snapshot("A", 100, 100, 0, 1000, quote[1], quote[2], 10, 10)

\* the history that holds the earlier quotes and the current one
SpreadHistory(earlier, current) ==
    [i \in 1..(Len(earlier) + 1) |->
        QuotedSnapshot(IF i <= Len(earlier) THEN earlier[i] ELSE current)]

SpreadCalled(earlier, current) ==
    /\ lastCall.op = "init"
    /\ lastCall' = Outcome("spread", SpreadHistory(earlier, current),
                           detect_suspicious_patterns(
                               QuotedSnapshot(current),
                               SpreadHistory(earlier, current)).alerts,
                           FALSE)
    /\ UNCHANGED <<heap, engine, running, mpc, reports, stateless, log>>

SpreadCheck ==
    \E n \in 0..(MaxSpreadHistory - 1) :
        \E earlier \in [1..n -> SpreadEarlierQuotes], current \in SpreadCurrentQuotes :
            SpreadCalled(earlier, current)

\* spreads of 3 %, 4 % and 5 %, which are not floats: (103 - 100) / 100 * 100
\* is 3.0000000000000004 and (107 - 100) / 100 * 100 is 7.000000000000001
SpreadEdgeEarlier == {<<100, 103>>, <<100, 104>>, <<100, 105>>}

\* 7 % is mean + 3 stdev of 3 %, 4 % and 5 %
SpreadEdgeCurrent == {<<100, 106>>, <<100, 107>>, <<100, 108>>}

\* the spread check at and around a z of exactly 3
SpreadEdgeCheck ==
    \E earlier \in [1..MIN_HISTORY -> SpreadEdgeEarlier], current \in SpreadEdgeCurrent :
        SpreadCalled(earlier, current)

NextSpread == SpreadCheck \/ SpreadEdgeCheck

SpecSpread == Init /\ [][NextSpread]_vars

(***************************************************************************)
(* SpecCount: ingest calls of every kind (empty batch, repeated security,  *)
(* a batch on which a detector raises) with reports and resets in between  *)
(***************************************************************************)
MaxCountCycles == 4

CountBatches == {<<>>, <<CalmA, CalmA>>, <<HotA, HotB>>, <<PoisonA>>}

CountIngest ==
    \E b \in CountBatches : Visible.snapshot_count < MaxCountCycles /\ Ingest(b)

CountReport == \E now \in Clock : GetReport(now)

NextCount == CountIngest \/ CountReport \/ StreamReset

SpecCount == Init /\ [][NextCount]_vars

(***************************************************************************)
(* SpecCross: detect_anomalies on one market snapshot of many securities   *)
(***************************************************************************)
\* the most securities traded in a snapshot: among 28 volumes one can lie
\* more than 5 standard deviations above the mean
MaxCrossStocks == 28

CrossSizes == {0, 1, 2, 10, 11, 12, MaxCrossStocks - 1, MaxCrossStocks}

Tickers ==
    <<"AB", "AL", "AMS", "ARTES", "ASSAD", "AST", "ATB", "ATL", "BH", "BIAT",
      "BNA", "BT", "BTE", "CC", "CIL", "DH", "ECYCL", "GIF", "ICF", "LNDOR",
      "MAG", "MNP", "NAKL", "OTH", "PGH", "SAH", "SFBT", "SOTET", "STB", "TJARI",
      "TLNET", "TPR", "UIB", "UMED">>

\* a traded security with quiet prices and orders
QuietStock(i, quantite) == StockData(Tickers[i], quantite, 0, 10, 10, 100, 101)

\* a security far out in price, orders and spread
LoudStock(i, quantite) == StockData(Tickers[i], quantite, 9, 100, 600, 100, 150)

\* n securities with session volumes lo and hi in turn
CrossCrowd(n, lo, hi) == [i \in 1..n |-> QuietStock(i, IF i % 2 = 1 THEN lo ELSE hi)]

CrossCrowds ==
    UNION {{CrossCrowd(n, 1, 2), CrossCrowd(n, 50, 51), CrossCrowd(n, 5, 5)} :
              n \in CrossSizes}

\* the session volumes of the security added to the crowd
CrossQuantities == {-5, 0, 1, 5, 6, 20, 50, 100}

\* the crowd with one more security: quiet and last, or loud and first
CrossBatches ==
    UNION {{Append(crowd, QuietStock(Len(crowd) + 1, q)),
            <<LoudStock(Len(crowd) + 1, q)>> \o crowd} :
              crowd \in CrossCrowds, q \in CrossQuantities}

CrossCheck ==
    \E stocks \in CrossBatches, now \in Clock :
        /\ lastCall.op = "init"
        /\ stateless' = <<detect_anomalies(stocks, now)>>
        /\ lastCall' = Outcome("cross", stocks, <<>>, FALSE)
        /\ UNCHANGED <<heap, engine, running, mpc, reports, log>>

NextCross == CrossCheck

SpecCross == Init /\ [][NextCross]_vars

(***************************************************************************)
(* SpecKinds: an engine fed long enough for every kind of alert: batches   *)
(* that bring many snapshots of A at once, then one out of line in every   *)
(* respect                                                                 *)
(***************************************************************************)
MaxKindCycles == 4

\* the snapshots of A in the longest batch: two such batches and one more
\* snapshot make the 28 deltas from which z can pass 5
MaxRamp == 14

RampLengths == {6, MaxRamp}

\* n quiet snapshots of A at a constant volume, the bid 1 % and 2 % above the ask in turn
Ramp(n) ==
    [i \in 1..n |-> Snapshot("A", 100, 100, 0, 1000, 100, IF i % 2 = 1 THEN 101 ELSE 102, 10, 10)]

\* +6 %, 100 units traded, a spread of 50 %, 2000 on the ask side against 10
LoudA == Snapshot("A", 106, 100, 6, 1100, 100, 150, 2000, 10)

\* the same once more, 100 units later
LouderA == Snapshot("A", 106, 100, 6, 1200, 100, 150, 2000, 10)

KindBatches ==
    {Ramp(n) \o <<HotB>> : n \in RampLengths}
        \cup {<<LoudA, HotB>>, <<LouderA>>, <<CalmA, CalmB>>}

KindIngest ==
    \E b \in KindBatches : Visible.snapshot_count < MaxKindCycles /\ Ingest(b)

NextKinds == KindIngest \/ StreamReset

SpecKinds == Init /\ [][NextKinds]_vars

(***************************************************************************)
(* SpecMonitor: the monitor loop with fetches and ingests that fail.  The  *)
(* event loop ends every sleep after its interval and runs every task that *)
(* is scheduled, hence the two fairness conditions                         *)
(***************************************************************************)
MaxMonitorCycles == 4

\* the last ingest raises once A has four snapshots
MonitorBatches == {<<CalmA, CalmA>>, <<HotB>>, <<PoisonA>>}

MonitorCycle ==
    \E b \in MonitorBatches :
        /\ heap[MonitorTarget(engine)].snapshot_count < MaxMonitorCycles
        /\ MonitorPoll(b)

\* one pass of the loop body, whatever its outcome
MonitorPass == MonitorFetchFails \/ MonitorCycle

NextMonitor == MonitorCycle \/ MonitorFetchFails \/ MonitorWakes \/ StreamReset \/ Shutdown

SpecMonitor ==
    InitLive /\ [][NextMonitor]_vars /\ WF_vars(MonitorWakes) /\ WF_vars(MonitorPass)

(***************************************************************************)
(* SpecOnset: one security fed one snapshot per cycle, its cumulative      *)
(* volume moving by a regular step, a jump or a fall                       *)
(***************************************************************************)
\* the most snapshots fed: 13 hold 11 valid deltas next to one fall
MaxOnsetCycles == 13

\* the most steps of a run that are not the regular one
MaxOnsetIrregular == 2

OnsetRegular == 5

OnsetSteps == {-3, OnsetRegular, 500}

\* the cumulative volume the feed last reported for A
OnsetVolume ==
    IF Visible.history["A"] = <<>> THEN 1000 ELSE Last(Visible.history["A"]).volume

OnsetIrregular ==
    Cardinality({i \in 1..(Len(Visible.history["A"]) - 1) :
        Visible.history["A"][i + 1].volume - Visible.history["A"][i].volume
            # OnsetRegular})

OnsetIngest ==
    \E step \in OnsetSteps :
        /\ Len(Visible.history["A"]) < MaxOnsetCycles
        /\ step # OnsetRegular /\ Visible.history["A"] # <<>> =>
               OnsetIrregular < MaxOnsetIrregular
        /\ Ingest(<<Quiet("A", OnsetVolume + step)>>)

NextOnset == OnsetIngest \/ StreamReset

SpecOnset == Init /\ [][NextOnset]_vars

(***************************************************************************)
(* SpecBroken: ingest calls of which some break off in a detector, every   *)
(* batch stamped with the time of its fetch                                *)
(***************************************************************************)
MaxBrokenCycles == 5

\* B out of line first, then A, whose volume breaks the volume detector
\* once A has four snapshots
BrokenBatches ==
    {<<HotB, CalmA>>, <<HotB, PoisonA>>, <<CalmA, HotB>>, <<PoisonA, HotB>>, <<HotB>>}

\* fetch_snapshots gives every snapshot of one fetch the same timestamp; the
\* fetches are numbered like the cycles of the engine they feed
Stamped(snapshots, now) ==
    [i \in DOMAIN snapshots |-> [snapshots[i] EXCEPT !.timestamp = now]]

BrokenIngest ==
    \E b \in BrokenBatches :
        /\ Visible.snapshot_count < MaxBrokenCycles
        /\ Ingest(Stamped(b, Visible.snapshot_count + 1))

NextBroken == BrokenIngest \/ StreamReset

SpecBroken == Init /\ [][NextBroken]_vars

(***************************************************************************)
(* Properties of the engine (Spec)                                         *)
(***************************************************************************)
CallWasIngest == lastCall.op = "ingest"

\* the part of the alert list the last call appended
Appended == SubSeq(Visible.alerts, lastCall.pre_alerts + 1, Len(Visible.alerts))

\* C1: an ingest call returns no alert for a security whose buffered history
\* holds fewer than MIN_HISTORY snapshots, whatever the snapshot's values.
C1_NoAlertOnShortHistory ==
    CallWasIngest =>
        \A i \in DOMAIN lastCall.returned :
            Len(Visible.history[lastCall.returned[i].isin]) >= MIN_HISTORY

\* an active engine was given an extreme snapshot of a security with a short
\* history next to a security that did raise alerts
C1_Witness ==
    /\ CallWasIngest
    /\ Visible.snapshot_count >= MIN_HISTORY
    /\ lastCall.returned # <<>>
    /\ \E i \in DOMAIN lastCall.batch :
          /\ Len(Visible.history[lastCall.batch[i].isin]) < MIN_HISTORY
          /\ Abs(lastCall.batch[i].change) >= CRITICAL_PCT

\* C3 (as claimed): a detector exception for one snapshot of the batch does
\* not keep the other snapshots from being evaluated: the alerts of every
\* snapshot whose own detectors do not raise are returned and appended.
C3_BatchSurvivesDetectorError ==
    CallWasIngest =>
        \A i \in DOMAIN lastCall.batch :
            LET own == Evaluate(Visible.snapshot_count, Visible.history,
                                lastCall.batch[i])
            IN  ~own.raised =>
                    /\ Range(own.alerts) \subseteq Range(lastCall.returned)
                    /\ Range(own.alerts) \subseteq Range(Appended)

\* C4: while the cycle counter is below MIN_HISTORY (the first two ingest
\* calls after construction or reset) snapshots are recorded but no detector
\* runs: the call returns nothing and the alert list stays empty; on the
\* third call the detectors run.
C4_EngineWarmUp ==
    /\ Visible.snapshot_count < MIN_HISTORY => Visible.alerts = <<>>
    /\ (CallWasIngest /\ Visible.snapshot_count < MIN_HISTORY) =>
          /\ lastCall.returned = <<>>
          /\ ~lastCall.raised
          /\ \A i \in DOMAIN lastCall.batch :
                lastCall.batch[i] \in Range(Visible.history[lastCall.batch[i].isin])
    /\ (CallWasIngest /\ Visible.snapshot_count = MIN_HISTORY /\ ~lastCall.raised) =>
          \A i \in DOMAIN lastCall.batch :
              LET snap == lastCall.batch[i]
              IN  (/\ Len(Visible.history[snap.isin]) >= MIN_HISTORY
                   /\ Abs(snap.change) >= PRICE_CHANGE_THRESHOLD
                   /\ snap.close > 0 /\ snap.last > 0)
                  => \E j \in DOMAIN lastCall.returned :
                        /\ lastCall.returned[j].isin = snap.isin
                        /\ lastCall.returned[j].anomaly_type = "PRICE_ANOMALY"

\* the second call brought a security with three or more buffered snapshots
\* and a change beyond the threshold
C4_Witness ==
    /\ CallWasIngest
    /\ Visible.snapshot_count = MIN_HISTORY - 1
    /\ \E i \in DOMAIN lastCall.batch :
          /\ Len(Visible.history[lastCall.batch[i].isin]) >= MIN_HISTORY
          /\ Abs(lastCall.batch[i].change) >= PRICE_CHANGE_THRESHOLD

\* C6: ingest returns exactly the alerts it newly produced and the alert
\* list is append-only: after an ingest it is its former value followed by
\* the returned list, and no step but a reset changes or removes an alert.
C6_AppendOnly ==
    [][/\ lastCall'.op = "ingest" =>
              Visible'.alerts = Visible.alerts \o lastCall'.returned
       /\ lastCall'.op # "reset" => IsPrefix(Visible.alerts, Visible'.alerts)]_vars

\* an ingest returned alerts when earlier alerts were already accumulated
C6_Witness ==
    /\ CallWasIngest
    /\ lastCall.returned # <<>>
    /\ lastCall.pre_alerts > 0
    /\ Len(Visible.alerts) = lastCall.pre_alerts + Len(lastCall.returned)

\* C9: after reset the engine is in its initial state: the report is empty,
\* the cycle counter is 0 and every history is empty, and the next two
\* ingest calls return no alerts.
C9_ResetToInitial ==
    /\ lastCall.op = "reset" =>
          /\ Visible.snapshot_count = 0
          /\ \A s \in ISINS : Visible.history[s] = <<>>
          /\ Visible.alerts = <<>>
          /\ \A now \in Clock :
                LET r == get_report(Visible, now)
                IN  /\ r.total_alerts = 0
                    /\ r.alerts = <<>>
                    /\ DOMAIN r.by_type = {}
                    /\ DOMAIN r.by_severity = {}
                    /\ r.top_flagged = <<>>
    /\ (CallWasIngest /\ Visible.snapshot_count <= 2) => lastCall.returned = <<>>

\* a reset of an engine that had accumulated alerts
C9_Witness ==
    /\ lastCall.op = "reset"
    /\ lastCall.pre_alerts > 0
    /\ lastCall.pre_count >= MIN_HISTORY

\* C2 (as claimed): after five successive ingest calls of one security with
\* cumulative volumes 1000, 1000, 1000, 1000, 50000 on a fresh engine, the
\* fifth call returns a VOLUME_SPIKE alert of severity WARNING or CRITICAL.
C2_SpikeScenario ==
    (/\ CallWasIngest
     /\ Visible.snapshot_count = 5
     /\ [i \in 1..Len(Visible.history["A"]) |-> Visible.history["A"][i].volume]
            = <<1000, 1000, 1000, 1000, 50000>>)
    => \E i \in DOMAIN lastCall.returned :
          /\ lastCall.returned[i].isin = "A"
          /\ lastCall.returned[i].anomaly_type = "VOLUME_SPIKE"
          /\ lastCall.returned[i].severity \in {"WARNING", "CRITICAL"}

\* C5: the history of a security is exactly the most recent min(N, 200) of
\* the N snapshots recorded for it, oldest first; it never exceeds 200.
C5_HistoryIsBoundedFifo ==
    \A s \in ISINS :
        LET n == Len(log[s])
            k == Min(n, HISTORY_MAXLEN)
        IN  /\ Len(Visible.history[s]) <= HISTORY_MAXLEN
            /\ Visible.history[s] = SubSeq(log[s], n - k + 1, n)

\* more snapshots were recorded than the history holds: the oldest are gone
C5_Witness ==
    /\ Len(log["A"]) >= HISTORY_MAXLEN + 2
    /\ Len(Visible.history["A"]) = HISTORY_MAXLEN
    /\ Visible.history["A"][1].volume = Len(log["A"]) - HISTORY_MAXLEN + 1

RECURSIVE SumCounts(_)
SumCounts(f) ==
    IF DOMAIN f = {} THEN 0
    ELSE LET k == CHOOSE x \in DOMAIN f : TRUE
         IN  f[k] + SumCounts([x \in DOMAIN f \ {k} |-> f[x]])

ReportsProduced == Range(reports) \cup Range(stateless)

\* C7: in every report of get_report and of detect_anomalies, total_alerts
\* equals the length of the alerts list, the sum of the by_severity counts
\* and the sum of the by_type counts.
C7_ReportTotals ==
    \A r \in ReportsProduced :
        /\ r.total_alerts = Len(r.alerts)
        /\ r.total_alerts = SumCounts(r.by_severity)
        /\ r.total_alerts = SumCounts(r.by_type)

\* both modes have produced a report with several alerts of one kind
C7_Witness ==
    /\ \E r \in Range(reports) :
          r.total_alerts > Cardinality(DOMAIN r.by_type) /\ Cardinality(DOMAIN r.by_type) > 1
    /\ \E r \in Range(stateless) :
          r.total_alerts > Cardinality(DOMAIN r.by_type) /\ Cardinality(DOMAIN r.by_type) > 1

\* C8 (as claimed): two get_report calls with no ingest and no reset in
\* between return reports equal in every field.
C8_ReportIdentical ==
    Len(reports) = 2 => reports[1] = reports[2]

WithoutTimestamp(r) == [r EXCEPT !.timestamp = 0]

\* C8 (amended): two get_report calls with no ingest and no reset in between
\* return reports equal in every field but timestamp, which is the time of
\* the call.
C8_ReportIdempotent ==
    Len(reports) = 2 => WithoutTimestamp(reports[1]) = WithoutTimestamp(reports[2])

\* two reports of a non-empty alert list taken at different times
C8_Witness ==
    /\ Len(reports) = 2
    /\ reports[1].total_alerts > 0
    /\ reports[1].timestamp # reports[2].timestamp

(***************************************************************************)
(* Properties of the live application (SpecLive)                           *)
(***************************************************************************)
\* C10: whatever the order of monitor passes and resets, the bound engine is
\* the fresh engine with whole ingest cycles applied: a reset leaves a fresh
\* engine, a monitor pass applies one whole ingest to the engine bound at
\* that time, and the histories never hold a snapshot from before the reset.
C10_ResetRace ==
    /\ [](/\ \A s \in ISINS : Visible.history[s] = log[s]
          /\ Visible.snapshot_count < MIN_HISTORY => Visible.alerts = <<>>
          /\ \A s \in ISINS : Len(Visible.history[s]) <= 2 * Visible.snapshot_count)
    /\ [][/\ lastCall'.op = "reset" =>
                 /\ Visible'.snapshot_count = 0
                 /\ Visible'.alerts = <<>>
                 /\ \A s \in ISINS : Visible'.history[s] = <<>>
          /\ lastCall'.op = "monitor_ingest" =>
                 Visible' = ingest(Visible, lastCall'.batch).engine
          /\ lastCall'.op \in {"monitor_fetch_failed", "shutdown"} =>
                 Visible' = Visible]_vars

\* after a reset of an engine in use the monitor has run again and its
\* ingest has produced alerts on the new engine
C10_Witness ==
    /\ lastCall.op = "monitor_ingest"
    /\ engine # 0
    /\ lastCall.returned # <<>>
    /\ mpc = "sleep"

(***************************************************************************)
(* Properties of the stream endpoints (SpecStream)                         *)
(***************************************************************************)
\* C11: the stream endpoints read whole cycles.  A monitor pass adds to the
\* alert list exactly the alerts its ingest cycle returned (none when the
\* cycle broke off) and counts one cycle; a status or alerts call changes
\* nothing; every report served since the last pass holds exactly the alert
\* list of the engine; and the counter, total and groupings of one status
\* answer are those of one and the same engine state.
C11_ConsistentReads ==
    /\ [](\A i \in DOMAIN reports :
              /\ reports[i].alerts = Visible.alerts
              /\ reports[i].total_alerts = Len(Visible.alerts))
    /\ [](lastCall.op = "status" =>
              /\ lastCall.returned[1].running = running
              /\ lastCall.returned[1].snapshots_ingested = Visible.snapshot_count
              /\ lastCall.returned[1].total_alerts = Len(Visible.alerts)
              /\ lastCall.returned[1].by_type = CountBy(Visible.alerts, "anomaly_type")
              /\ lastCall.returned[1].by_severity = CountBy(Visible.alerts, "severity")
              /\ lastCall.returned[1].top_flagged = TopFlagged(Visible.alerts))
    /\ [][/\ lastCall'.op = "monitor_ingest" =>
                 /\ Visible'.alerts = Visible.alerts \o lastCall'.returned
                 /\ Visible'.snapshot_count = Visible.snapshot_count + 1
          /\ lastCall'.op \in {"status", "report"} => Visible' = Visible]_vars

\* a status answer read between two monitor passes, after cycles that raised
\* alerts and one that broke off
C11_Witness ==
    /\ lastCall.op = "status"
    /\ mpc = "sleep"
    /\ running
    /\ lastCall.returned[1].total_alerts > 0
    /\ lastCall.returned[1].snapshots_ingested = MaxStreamCycles
    /\ Len(log["A"]) = MaxStreamCycles
    /\ Last(log["A"]) = PoisonA

(***************************************************************************)
(* Properties of get_report (SpecReports)                                  *)
(***************************************************************************)
\* C12: get_report changes nothing: the histories, the cycle counter and the
\* alert list of the engine are the same after the call as before it; and
\* a call made during the warm-up cycles gives a report with total_alerts
\* = 0, no alert, empty groupings and an empty top_flagged.
C12_ReportFrame ==
    [][lastCall'.op = "report" =>
          /\ engine' = engine
          /\ Visible'.history = Visible.history
          /\ Visible'.snapshot_count = Visible.snapshot_count
          /\ Visible'.alerts = Visible.alerts
          /\ Visible.snapshot_count < MIN_HISTORY =>
                 /\ Last(reports').total_alerts = 0
                 /\ Last(reports').alerts = <<>>
                 /\ DOMAIN Last(reports').by_type = {}
                 /\ DOMAIN Last(reports').by_severity = {}
                 /\ Last(reports').top_flagged = <<>>]_vars

\* a report was asked for during warm-up, with snapshots already recorded
C12_Witness ==
    /\ lastCall.op = "report"
    /\ Visible.snapshot_count \in 1..(MIN_HISTORY - 1)
    /\ Visible.history["A"] # <<>>
    /\ reports # <<>>
    /\ Last(reports).total_alerts = 0

(***************************************************************************)
(* Properties of the price detector (SpecPrice)                            *)
(***************************************************************************)
OfType(alerts, type) == SelectSeq(alerts, LAMBDA a : a.anomaly_type = type)

PriceCurrent == Last(lastCall.batch)

PriceAlerts == OfType(lastCall.returned, "PRICE_ANOMALY")

\* the severity and the direction label of the one PRICE_ANOMALY alert
PriceAlertGraded ==
    /\ Len(PriceAlerts) = 1
    /\ PriceAlerts[1].isin = PriceCurrent.isin
    /\ PriceAlerts[1].severity =
          (IF Abs(PriceCurrent.change) >= 8 THEN "CRITICAL" ELSE "WARNING")
    /\ PriceCurrent.change > 0 => PriceAlerts[1].label = "HAUSSE"
    /\ PriceCurrent.change < 0 => PriceAlerts[1].label = "BAISSE"

\* C13 as stated: for every snapshot the price detector is run on, one
\* PRICE_ANOMALY alert exactly when |change| >= 5, CRITICAL from 8 up and
\* WARNING below, HAUSSE for a positive change and BAISSE for a negative one.
C13_PriceChangeRule ==
    lastCall.op = "price" =>
        IF Abs(PriceCurrent.change) >= 5 THEN PriceAlertGraded ELSE PriceAlerts = <<>>

\* C13, amended: the rule holds for the snapshots whose reference price and
\* last price are both positive; a snapshot with a reference or last price
\* of zero or less gets no PRICE_ANOMALY alert whatever its change.
C13_PriceChangeRulePositive ==
    lastCall.op = "price" =>
        IF PriceCurrent.close > 0 /\ PriceCurrent.last > 0
                                  /\ Abs(PriceCurrent.change) >= 5
        THEN PriceAlertGraded
        ELSE PriceAlerts = <<>>

\* reference 100, last 106, change 6 %: one WARNING alert labelled HAUSSE
C13_Witness ==
    /\ lastCall.op = "price"
    /\ PriceCurrent.close = 100
    /\ PriceCurrent.last = 106
    /\ PriceCurrent.change = 6
    /\ Len(PriceAlerts) = 1
    /\ PriceAlerts[1].severity = "WARNING"
    /\ PriceAlerts[1].label = "HAUSSE"

RapidAlerts == OfType(lastCall.returned, "RAPID_PRICE_MOVE")

PricePrev == lastCall.batch[Len(lastCall.batch) - 1]

\* abs(current - previous) / previous >= 2 %, for a positive previous price
MovedTwoPercent ==
    /\ Len(lastCall.batch) >= 2
    /\ PricePrev.last > 0
    /\ 100 * Abs(PriceCurrent.last - PricePrev.last) >= 2 * PricePrev.last

\* C16 as stated: whenever the history has at least 2 entries and the move
\* from the preceding snapshot's price is at least 2 %, a RAPID_PRICE_MOVE
\* alert is emitted.
C16_RapidMoveRule ==
    lastCall.op = "price" /\ MovedTwoPercent => Len(RapidAlerts) = 1

\* C16, amended: with at least 2 entries in the history and both the
\* preceding and the current price positive, one RAPID_PRICE_MOVE alert is
\* emitted exactly when the relative move is at least 2 %; it is always
\* WARNING, and whether it fires does not depend on the change from the
\* reference, so it appears with or without a PRICE_ANOMALY alert.  With a
\* current or preceding price of zero or less there is none.
C16_RapidMoveRulePositive ==
    lastCall.op = "price" =>
        /\ Len(RapidAlerts) = (IF MovedTwoPercent /\ PriceCurrent.last > 0 THEN 1 ELSE 0)
        /\ \A i \in DOMAIN RapidAlerts : RapidAlerts[i].severity = "WARNING"
        /\ Len(lastCall.returned) = Len(PriceAlerts) + Len(RapidAlerts)

\* a move from 100 to 106 against a reference of 100 fires both alerts
C16_Witness ==
    /\ lastCall.op = "price"
    /\ Len(lastCall.batch) >= 2
    /\ PricePrev.last = 100
    /\ PriceCurrent.last = 106
    /\ PriceCurrent.close = 100
    /\ PriceCurrent.change = 6
    /\ Len(RapidAlerts) = 1
    /\ Len(PriceAlerts) = 1

(***************************************************************************)
(* Properties of the order-imbalance check (SpecImbalance)                 *)
(***************************************************************************)
ImbalanceChecked == lastCall.op \in {"imbalance_streaming", "imbalance_stateless"}

\* the check is run on the record: on every snapshot in the streaming mode,
\* on the securities traded in the session (quantite > 0) in the stateless mode
ImbalanceEvaluated(m) == lastCall.op = "imbalance_stateless" => m.volume > 0

ImbalanceAlerts(k) == OfType(lastCall.returned[k], "ORDER_IMBALANCE")

\* the pressure side the k-th answer names: "VENTE", "ACHAT" or "NONE"
ImbalanceSide(k) ==
    IF ImbalanceAlerts(k) = <<>> THEN "NONE" ELSE ImbalanceAlerts(k)[1].label

\* one WARNING alert naming the side when a ratio exceeds 5, none otherwise
ImbalanceAsRatios(m) ==
    LET positive == m.askQty > 0 /\ m.bidQty > 0
        sell == positive /\ m.bidQty > 5 * m.askQty
        buy == positive /\ m.askQty > 5 * m.bidQty
    IN  /\ Len(ImbalanceAlerts(1)) = (IF sell \/ buy THEN 1 ELSE 0)
        /\ \A i \in DOMAIN ImbalanceAlerts(1) :
               /\ ImbalanceAlerts(1)[i].severity = "WARNING"
               /\ ImbalanceAlerts(1)[i].isin = m.isin
        /\ sell => ImbalanceSide(1) = "VENTE"
        /\ buy => ImbalanceSide(1) = "ACHAT"

\* C14: for every evaluated snapshot, in both modes, there is exactly one
\* ORDER_IMBALANCE alert, WARNING, when both quantities are positive and
\* bid_qty / ask_qty > 5 (sell pressure, VENTE) or ask_qty / bid_qty > 5
\* (buy pressure, ACHAT), and none otherwise: none at a ratio of exactly 5,
\* none when a quantity is zero or negative.
C14_ImbalanceRule ==
    (ImbalanceChecked /\ ImbalanceEvaluated(lastCall.batch[1])) =>
        ImbalanceAsRatios(lastCall.batch[1])

\* ask_qty 100 and bid_qty 600: one alert, sell pressure, in the stateless
\* mode on a traded security
C14_Witness ==
    /\ lastCall.op = "imbalance_stateless"
    /\ lastCall.batch[1].volume > 0
    /\ lastCall.batch[1].askQty = 100
    /\ lastCall.batch[1].bidQty = 600
    /\ Len(ImbalanceAlerts(1)) = 1
    /\ ImbalanceSide(1) = "VENTE"

\* C15: exchanging the ask and bid quantities exchanges the label: sell
\* pressure becomes buy pressure and buy pressure becomes sell pressure, no
\* alert stays no alert, and no snapshot gets both labels.
C15_ImbalanceAntisymmetric ==
    ImbalanceChecked =>
        /\ ImbalanceSide(1) = "VENTE" <=> ImbalanceSide(2) = "ACHAT"
        /\ ImbalanceSide(1) = "ACHAT" <=> ImbalanceSide(2) = "VENTE"
        /\ ImbalanceSide(1) = "NONE" <=> ImbalanceSide(2) = "NONE"
        /\ Len(ImbalanceAlerts(1)) <= 1
        /\ Len(ImbalanceAlerts(2)) <= 1

\* buy pressure in the streaming mode whose exchange is sell pressure
C15_Witness ==
    /\ lastCall.op = "imbalance_streaming"
    /\ lastCall.batch[1].askQty = 600
    /\ lastCall.batch[1].bidQty = 100
    /\ ImbalanceSide(1) = "ACHAT"
    /\ ImbalanceSide(2) = "VENTE"

(***************************************************************************)
(* Properties of the volume detector (SpecVolume)                          *)
(***************************************************************************)
\* the k-th window of the call, its valid deltas and its current delta
Window(k) == lastCall.batch[k]

WindowSteps(k) ==
    [i \in 1..(Len(Window(k)) - 1) |-> Window(k)[i + 1].volume - Window(k)[i].volume]

ValidSteps(k) == SelectSeq(WindowSteps(k), LAMBDA d : d >= 0)

CurrentStep(k) == Last(WindowSteps(k))

SpikeAlerts(k) == OfType(lastCall.returned[k], "VOLUME_SPIKE")

\* n times the deviation of the current delta from the mean of the valid deltas
Deviation(k) == Len(ValidSteps(k)) * CurrentStep(k) - Sum(ValidSteps(k))

\* n (n - 1) times the sample variance of the valid deltas
Spread(k) ==
    Len(ValidSteps(k)) * SumSq(ValidSteps(k)) - Sum(ValidSteps(k)) * Sum(ValidSteps(k))

\* z = (current delta - mean) / stdev exceeds limit
ZOver(k, limit) ==
    /\ Deviation(k) > 0
    /\ Deviation(k) * Deviation(k) * (Len(ValidSteps(k)) - 1)
          > limit * limit * Len(ValidSteps(k)) * Spread(k)

\* a / b <= c / d for b > 0 and d > 0, by continued fractions
RECURSIVE FracLeq(_, _, _, _)
FracLeq(a, b, c, d) ==
    IF a \div b # c \div d THEN a \div b < c \div d
    ELSE IF a % b = 0 THEN TRUE
    ELSE IF c % d = 0 THEN FALSE
    ELSE FracLeq(d, c % d, b, a % b)

\* z of window 1 <= z of window 2, both with the same number of valid deltas
\* and a nonzero standard deviation
ZNotLowered ==
    IF Deviation(1) <= 0 /\ Deviation(2) >= 0 THEN TRUE
    ELSE IF Deviation(1) > 0 /\ Deviation(2) <= 0 THEN FALSE
    ELSE IF Deviation(1) > 0
         THEN FracLeq(Deviation(1) * Deviation(1), Spread(1),
                      Deviation(2) * Deviation(2), Spread(2))
         ELSE FracLeq(Deviation(2) * Deviation(2), Spread(2),
                      Deviation(1) * Deviation(1), Spread(1))

IsCritical(k) == \E i \in DOMAIN SpikeAlerts(k) : SpikeAlerts(k)[i].severity = "CRITICAL"

\* C17: with the earlier snapshots fixed, a larger positive volume delta of
\* the current snapshot never gives a smaller z: a window flagged with the
\* smaller delta is flagged with the larger one, and an alert that was
\* CRITICAL stays CRITICAL.
C17_ZMonotonic ==
    lastCall.op = "volume" /\ CurrentStep(1) > 0 =>
        /\ Spread(1) > 0 /\ Spread(2) > 0 => ZNotLowered
        /\ SpikeAlerts(1) # <<>> => SpikeAlerts(2) # <<>>
        /\ IsCritical(1) => IsCritical(2)

\* a WARNING spike that a larger delta turns into a CRITICAL one
C17_Witness ==
    /\ lastCall.op = "volume"
    /\ 0 < CurrentStep(1)
    /\ CurrentStep(1) < CurrentStep(2)
    /\ Len(SpikeAlerts(1)) = 1
    /\ ~IsCritical(1)
    /\ IsCritical(2)

\* C20: a VOLUME_SPIKE alert exactly when the window has at least 3 valid
\* (non-negative) deltas, their standard deviation is not zero, the current
\* delta is positive and its z exceeds 3; CRITICAL when z exceeds 5 and
\* WARNING otherwise; none in a cycle whose cumulative volume fell or stayed
\* equal.
C20_VolumeSpikeRule ==
    lastCall.op = "volume" =>
        /\ Len(SpikeAlerts(1)) =
              (IF /\ Len(ValidSteps(1)) >= 3
                  /\ Spread(1) # 0
                  /\ CurrentStep(1) > 0
                  /\ ZOver(1, 3)
               THEN 1 ELSE 0)
        /\ \A i \in DOMAIN SpikeAlerts(1) :
               SpikeAlerts(1)[i].severity = (IF ZOver(1, 5) THEN "CRITICAL" ELSE "WARNING")
        /\ CurrentStep(1) <= 0 => SpikeAlerts(1) = <<>>
        /\ Len(lastCall.returned[1]) = Len(SpikeAlerts(1))

\* a WARNING spike in a window where an earlier fall of the volume was left
\* out of the deltas
C20_Witness ==
    /\ lastCall.op = "volume"
    /\ \E i \in DOMAIN WindowSteps(1) : WindowSteps(1)[i] < 0
    /\ Len(SpikeAlerts(1)) = 1
    /\ SpikeAlerts(1)[1].severity = "WARNING"

(***************************************************************************)
(* Properties of top_flagged (SpecTop)                                     *)
(***************************************************************************)
Aggregated == lastCall.batch

NamesIn(alerts) == {alerts[j].valeur : j \in DOMAIN alerts}

AlertsNaming(alerts, name) == Cardinality({j \in DOMAIN alerts : alerts[j].valeur = name})

\* the position of the first alert naming name
FirstAlertOf(alerts, name) ==
    CHOOSE j \in DOMAIN alerts :
        /\ alerts[j].valeur = name
        /\ \A h \in 1..(j - 1) : alerts[h].valeur # name

\* name a comes before name b: more alerts, or as many and seen first
RanksBefore(alerts, a, b) ==
    \/ AlertsNaming(alerts, a) > AlertsNaming(alerts, b)
    \/ /\ AlertsNaming(alerts, a) = AlertsNaming(alerts, b)
       /\ FirstAlertOf(alerts, a) < FirstAlertOf(alerts, b)

TopOf(r) == r.top_flagged

\* C18: top_flagged lists (name, count) pairs by count descending, names
\* of equal count in the order they are first seen in the alert list, and
\* stops after 10; each count is the number of alerts with that name.
C18_TopFlagged ==
    lastCall.op = "aggregate" =>
        \A r \in Range(reports) :
            /\ Len(TopOf(r)) = Min(10, Cardinality(NamesIn(Aggregated)))
            /\ \A i \in DOMAIN TopOf(r) :
                   /\ TopOf(r)[i].valeur \in NamesIn(Aggregated)
                   /\ TopOf(r)[i].count = AlertsNaming(Aggregated, TopOf(r)[i].valeur)
            /\ \A i, j \in DOMAIN TopOf(r) :
                   i < j => RanksBefore(Aggregated, TopOf(r)[i].valeur, TopOf(r)[j].valeur)
            /\ \A name \in NamesIn(Aggregated) \ {TopOf(r)[i].valeur : i \in DOMAIN TopOf(r)} :
                   \A i \in DOMAIN TopOf(r) :
                       RanksBefore(Aggregated, TopOf(r)[i].valeur, name)

\* more than 10 names: the one seen last has the most alerts and comes first,
\* the others tie and the last of them are cut
C18_Witness ==
    /\ lastCall.op = "aggregate"
    /\ reports # <<>>
    /\ Cardinality(NamesIn(Aggregated)) > 10
    /\ Len(TopOf(reports[1])) = 10
    /\ TopOf(reports[1])[1].valeur = Last(Aggregated).valeur
    /\ TopOf(reports[1])[1].count = 3
    /\ TopOf(reports[1])[2].count = TopOf(reports[1])[10].count

(***************************************************************************)
(* Properties of the two modes (SpecModes)                                 *)
(***************************************************************************)
\* the alerts of one type agree: as many, with the same severity and label
SameAlerts(from_stream, from_batch) ==
    /\ Len(from_stream) = Len(from_batch)
    /\ \A i \in DOMAIN from_stream :
           /\ i \in DOMAIN from_batch
           /\ from_stream[i].severity = from_batch[i].severity
           /\ from_stream[i].label = from_batch[i].label
           /\ from_stream[i].isin = from_batch[i].isin

\* C19: on a security with the same price, reference, change and order
\* quantities in both representations, detect_anomalies and the streaming
\* detectors past warm-up produce the same PRICE_ANOMALY and ORDER_IMBALANCE
\* alerts: the same presence, severity and label.
C19_ModesAgree ==
    lastCall.op = "modes" =>
        \A type \in {"PRICE_ANOMALY", "ORDER_IMBALANCE"} :
            SameAlerts(OfType(lastCall.returned[1], type),
                       OfType(lastCall.returned[2], type))

(***************************************************************************)
(* Properties of the history handed to the detectors (SpecRepeat)          *)
(***************************************************************************)
\* the detectors were run on the i-th snapshot of the last batch
Evaluated(i) ==
    /\ EngineActive(Visible.snapshot_count)
    /\ HistoryReady(DetectorHistory(Visible.history, lastCall.batch[i]))

\* the history list the detectors got for the i-th snapshot of the last batch
HistoryPassed(i) == DetectorHistory(Visible.history, lastCall.batch[i])

\* the snapshots of the same security that follow the i-th one in the batch
LaterInBatch(i) ==
    {j \in DOMAIN lastCall.batch : j > i /\ lastCall.batch[j].isin = lastCall.batch[i].isin}

\* where the i-th snapshot of the batch stands among those recorded for its security
RecordedAt(i) == Len(log[lastCall.batch[i].isin]) - Cardinality(LaterInBatch(i))

\* C21 (as claimed): for every batch, one with several snapshots of a
\* security included, the history list passed to the detectors ends in the
\* snapshot being evaluated, and the entry before the last, which the
\* detectors take as the previous snapshot, is the one recorded just before
\* the snapshot being evaluated.
C21_HistoryEndsInCurrent ==
    CallWasIngest =>
        \A i \in DOMAIN lastCall.batch :
            Evaluated(i) =>
                /\ Last(HistoryPassed(i)) = lastCall.batch[i]
                /\ HistoryPassed(i)[Len(HistoryPassed(i)) - 1]
                      = log[lastCall.batch[i].isin][RecordedAt(i) - 1]

(***************************************************************************)
(* Properties of two engines fed side by side (SpecTwin)                   *)
(***************************************************************************)
OfIsin(alerts, isin) == SelectSeq(alerts, LAMBDA a : a.isin = isin)

IsinsOf(batch) == {batch[i].isin : i \in DOMAIN batch}

\* C22 (as claimed): two engines that got the same number of ingest calls
\* and the same snapshots of security A in every batch, whatever the other
\* securities' snapshots, return the same alerts for A in every cycle; and
\* an ingest leaves the history of every security absent from the batch
\* unchanged and returns no alert for it.
C22_PerSecurityIndependence ==
    /\ [](lastCall.op = "twin" =>
              OfIsin(lastCall.returned[1], "A") = OfIsin(lastCall.returned[2], "A"))
    /\ [][lastCall'.op = "twin" =>
              \A k \in 1..2 : \A s \in ISINS \ IsinsOf(lastCall'.batch[k]) :
                  /\ heap'[k - 1].history[s] = heap[k - 1].history[s]
                  /\ OfIsin(lastCall'.returned[k], s) = <<>>]_vars

\* the two engines agree on A in every cycle in which neither call raised,
\* and on A's history and the cycle counter throughout
TwinsAgreeUnlessRaised ==
    /\ []((lastCall.op = "twin" /\ ~lastCall.raised) =>
              OfIsin(lastCall.returned[1], "A") = OfIsin(lastCall.returned[2], "A"))
    /\ [](heap[0].history["A"] = heap[1].history["A"]
           /\ heap[0].snapshot_count = heap[1].snapshot_count)

(***************************************************************************)
(* Properties of the spoofing check (SpecSpoof)                            *)
(***************************************************************************)
SpoofAlerts == OfType(lastCall.returned, "PATTERN_SUSPECT")

SpoofCurrent == Last(lastCall.batch)

SpoofPrev == lastCall.batch[Len(lastCall.batch) - 1]

\* the preceding quantity is positive, the current one more than 10 times it
\* and more than 1000
JumpedTenfold(prev_qty, curr_qty) ==
    prev_qty > 0 /\ curr_qty > 10 * prev_qty /\ curr_qty > 1000

\* the side labels the rule asks for, the ask side first
SidesExpected ==
    (IF JumpedTenfold(SpoofPrev.ask_qty, SpoofCurrent.ask_qty) THEN <<"ACHAT">> ELSE <<>>)
    \o (IF JumpedTenfold(SpoofPrev.bid_qty, SpoofCurrent.bid_qty) THEN <<"VENTE">> ELSE <<>>)

\* C23: for each side on its own (ask quantity labelled ACHAT, bid quantity
\* labelled VENTE) there is a PATTERN_SUSPECT alert, CRITICAL, exactly when
\* the preceding snapshot's quantity on that side is > 0, the current one is
\* more than 10 times it and the current one is > 1000; both sides can fire
\* for one snapshot, and a jump to 1000 or less never fires.
C23_SpoofingRule ==
    lastCall.op = "patterns" =>
        /\ [i \in DOMAIN SpoofAlerts |-> SpoofAlerts[i].label] = SidesExpected
        /\ \A i \in DOMAIN SpoofAlerts :
               /\ SpoofAlerts[i].severity = "CRITICAL"
               /\ SpoofAlerts[i].isin = SpoofCurrent.isin
        /\ (SpoofCurrent.ask_qty <= 1000 /\ SpoofCurrent.bid_qty <= 1000)
               => SpoofAlerts = <<>>

\* both sides jump from 100 to more than 1000: two alerts, one per side
C23_Witness ==
    /\ lastCall.op = "patterns"
    /\ SpoofPrev.ask_qty = 100
    /\ SpoofPrev.bid_qty = 100
    /\ SpoofCurrent.ask_qty = 1001
    /\ SpoofCurrent.bid_qty = 1501
    /\ Len(SpoofAlerts) = 2
    /\ SpoofAlerts[1].label = "ACHAT"
    /\ SpoofAlerts[2].label = "VENTE"

(***************************************************************************)
(* Properties of the spread check (SpecSpread)                             *)
(***************************************************************************)
SpreadAnomalies == OfType(lastCall.returned, "SPREAD_ANOMALY")

SpreadCurrent == Last(lastCall.batch)

HasSpread(h) == h.ask > 0 /\ h.bid > h.ask

\* the history entries other than the current one that have a valid spread
SpreadSamples == SelectSeq(SubSeq(lastCall.batch, 1, Len(lastCall.batch) - 1), HasSpread)

\* the spread in tenths of a percent, a whole number for every quote drawn
SpreadTenths(h) == ((h.bid - h.ask) * 1000) \div h.ask

SpreadTenthsExact(h) == ((h.bid - h.ask) * 1000) % h.ask = 0

SampleTenths == [i \in DOMAIN SpreadSamples |-> SpreadTenths(SpreadSamples[i])]

\* n times (current spread - mean of the samples)
SpreadDeviation == Len(SampleTenths) * SpreadTenths(SpreadCurrent) - Sum(SampleTenths)

\* n (n - 1) times the sample variance
SpreadVariance == Len(SampleTenths) * SumSq(SampleTenths) - Sum(SampleTenths) * Sum(SampleTenths)

\* (current spread - mean) / stdev > 3 as real numbers, for a nonzero stdev
SpreadZOverThree ==
    /\ SpreadDeviation > 0
    /\ SpreadDeviation * SpreadDeviation * (Len(SampleTenths) - 1)
          > 9 * Len(SampleTenths) * SpreadVariance

\* (current spread - mean) / stdev = 3 as real numbers, for a nonzero stdev
SpreadZIsThree ==
    /\ SpreadDeviation > 0
    /\ SpreadDeviation * SpreadDeviation * (Len(SampleTenths) - 1)
          = 9 * Len(SampleTenths) * SpreadVariance

\* the floats the detector takes mean and stdev of
SampleSpreads ==
    SpreadSample([i \in DOMAIN SpreadSamples |-> <<SpreadSamples[i].ask, SpreadSamples[i].bid>>])

\* z as the detector computes it, in floats, exceeds 3.0, for a nonzero stdev
SpreadZComputedOverThree ==
    QuotientAbove(FloatSub(spread_pct(<<SpreadCurrent.ask, SpreadCurrent.bid>>),
                           mean(SampleSpreads)),
                  stdev(SampleSpreads), FloatOf(3))

\* C24: a SPREAD_ANOMALY alert exactly when the current snapshot has ask > 0
\* and bid > ask, at least 3 history entries other than the current one have
\* a valid spread, the standard deviation of those spreads is not zero and
\* (current spread - mean) / stdev exceeds 3; the current snapshot is not one
\* of the samples, entries without a valid spread are ignored, the severity
\* is INFO, and there is no alert on a history of fewer than 4 snapshots.
\* The quotient is the one the detector computes, in floats: it exceeds 3
\* wherever the quotient of the real numbers does, nowhere that quotient is
\* below 3, and where that quotient is exactly 3 the rounding decides.
C24_SpreadRule ==
    lastCall.op = "spread" =>
        /\ \A i \in DOMAIN SpreadSamples : SpreadTenthsExact(SpreadSamples[i])
        /\ Len(SpreadAnomalies) =
              (IF /\ HasSpread(SpreadCurrent)
                  /\ Len(SpreadSamples) >= 3
                  /\ SpreadVariance # 0
                  /\ SpreadZComputedOverThree
               THEN 1 ELSE 0)
        /\ (HasSpread(SpreadCurrent) /\ Len(SpreadSamples) >= 3 /\ SpreadVariance # 0) =>
               /\ SpreadTenthsExact(SpreadCurrent)
               /\ SpreadZOverThree => Len(SpreadAnomalies) = 1
               /\ Len(SpreadAnomalies) = 1 => SpreadZOverThree \/ SpreadZIsThree
        /\ \A i \in DOMAIN SpreadAnomalies :
               /\ SpreadAnomalies[i].severity = "INFO"
               /\ SpreadAnomalies[i].isin = SpreadCurrent.isin
        /\ Len(lastCall.batch) < 4 => SpreadAnomalies = <<>>

\* four earlier entries of which one has no valid spread: the three others
\* are the samples, and a current spread of 10 % is flagged
C24_Witness ==
    /\ lastCall.op = "spread"
    /\ Len(lastCall.batch) = 5
    /\ HasSpread(SpreadCurrent)
    /\ SampleTenths = <<10, 30, 10>>
    /\ SpreadTenths(SpreadCurrent) = 100
    /\ Len(SpreadAnomalies) = 1
    /\ SpreadAnomalies[1].severity = "INFO"

(***************************************************************************)
(* Properties of the cycle counter (SpecCount)                             *)
(***************************************************************************)
\* C25: the cycle counter counts the ingest calls made on the engine since
\* its construction: it is 0 on a new engine, every ingest call raises it by
\* exactly one whatever the batch holds (nothing, or a snapshot on which a
\* detector raises), no other operation changes it, and it never decreases;
\* so an engine that has become active (counter >= 3) stays active until a
\* reset replaces it.
C25_CounterCountsCalls ==
    /\ [](lastCall.op = "init" => Visible.snapshot_count = 0)
    /\ [](lastCall.op = "ingest" => Visible.snapshot_count = lastCall.pre_count + 1)
    /\ [][/\ lastCall'.op = "ingest" =>
                 Visible'.snapshot_count = Visible.snapshot_count + 1
          /\ lastCall'.op = "reset" => Visible'.snapshot_count = 0
          /\ lastCall'.op \notin {"ingest", "reset"} =>
                 Visible'.snapshot_count = Visible.snapshot_count
          /\ lastCall'.op # "reset" =>
                 /\ Visible'.snapshot_count >= Visible.snapshot_count
                 /\ EngineActive(Visible.snapshot_count) =>
                        EngineActive(Visible'.snapshot_count)]_vars

\* an active engine whose third call raised was given an empty batch, which
\* was counted as the fourth call
C25_Witness ==
    /\ CallWasIngest
    /\ lastCall.batch = <<>>
    /\ lastCall.pre_count = MIN_HISTORY
    /\ Visible.snapshot_count = MIN_HISTORY + 1
    /\ Visible.history["A"] # <<>>
    /\ Last(Visible.history["A"]) = PoisonA
    /\ Visible.alerts = <<>>

(***************************************************************************)
(* Properties of the cross-sectional volume check (SpecCross)              *)
(***************************************************************************)
CrossStocks == lastCall.batch

CrossAlerts == stateless[1].alerts

\* the session volumes of the securities traded, in the order of the batch
TradedVolumes ==
    LET traded == SelectSeq(CrossStocks, LAMBDA s : s.quantite > 0)
    IN  [i \in DOMAIN traded |-> traded[i].quantite]

\* n times (volume - mean of the traded volumes)
CrossDeviation(s) == Len(TradedVolumes) * s.quantite - Sum(TradedVolumes)

\* n (n - 1) times the sample variance of the traded volumes
CrossVariance == Len(TradedVolumes) * SumSq(TradedVolumes) - Sum(TradedVolumes) * Sum(TradedVolumes)

\* volume > mean + limit * stdev, that is z > limit
CrossZOver(s, limit) ==
    /\ CrossDeviation(s) > 0
    /\ CrossDeviation(s) * CrossDeviation(s) * (Len(TradedVolumes) - 1)
          > limit * limit * Len(TradedVolumes) * CrossVariance

CrossSpikes(s) == OfIsin(OfType(CrossAlerts, "VOLUME_SPIKE"), s.isin)

\* C26: detect_anomalies emits a VOLUME_SPIKE alert for a security exactly
\* when its session volume is > 0, at least 2 securities of the batch have a
\* session volume > 0, the standard deviation of those volumes is not zero
\* and the security's volume exceeds their mean + 3 stdev; CRITICAL when
\* z > 5, WARNING otherwise; a security with a volume <= 0 is left out of
\* the statistics and gets no alert of any kind.
C26_CrossVolumeRule ==
    lastCall.op = "cross" =>
        \A i \in DOMAIN CrossStocks :
            LET s == CrossStocks[i]
            IN  /\ Len(CrossSpikes(s)) =
                      (IF /\ s.quantite > 0
                          /\ Len(TradedVolumes) >= 2
                          /\ CrossVariance # 0
                          /\ CrossZOver(s, 3)
                       THEN 1 ELSE 0)
                /\ \A j \in DOMAIN CrossSpikes(s) :
                       CrossSpikes(s)[j].severity =
                           (IF CrossZOver(s, 5) THEN "CRITICAL" ELSE "WARNING")
                /\ s.quantite <= 0 => OfIsin(CrossAlerts, s.isin) = <<>>

\* 27 securities with a volume of 5, one with 100 that is CRITICAL, seen
\* through a batch whose loud security is active and alerted on its price too
C26_Witness ==
    /\ lastCall.op = "cross"
    /\ Len(TradedVolumes) >= 28
    /\ CrossStocks[1].quantite = 100
    /\ Len(CrossSpikes(CrossStocks[1])) = 1
    /\ CrossSpikes(CrossStocks[1])[1].severity = "CRITICAL"
    /\ Len(OfIsin(CrossAlerts, CrossStocks[1].isin)) > 1

(***************************************************************************)
(* Properties of the accumulated alert list (SpecKinds)                    *)
(***************************************************************************)
AnomalyTypes ==
    {"VOLUME_SPIKE", "PRICE_ANOMALY", "ORDER_IMBALANCE", "SPREAD_ANOMALY",
     "PATTERN_SUSPECT", "RAPID_PRICE_MOVE"}

AlertSeverities == {"INFO", "WARNING", "CRITICAL"}

\* the severities an alert of a kind may have
SeveritiesOf(type) ==
    CASE type \in {"ORDER_IMBALANCE", "RAPID_PRICE_MOVE"} -> {"WARNING"}
      [] type = "SPREAD_ANOMALY" -> {"INFO"}
      [] type = "PATTERN_SUSPECT" -> {"CRITICAL"}
      [] type \in {"VOLUME_SPIKE", "PRICE_ANOMALY"} -> {"WARNING", "CRITICAL"}
      [] OTHER -> {}

Accumulated == Visible.alerts

\* C27: in every reachable state every alert of the accumulated list has a
\* severity fixed by its kind: ORDER_IMBALANCE and RAPID_PRICE_MOVE are
\* WARNING, SPREAD_ANOMALY is INFO, PATTERN_SUSPECT is CRITICAL, VOLUME_SPIKE
\* and PRICE_ANOMALY are WARNING or CRITICAL; an INFO alert is a
\* SPREAD_ANOMALY, and kinds and severities are those of the data model.
C27_SeverityByKind ==
    \A i \in DOMAIN Accumulated :
        /\ Accumulated[i].anomaly_type \in AnomalyTypes
        /\ Accumulated[i].severity \in AlertSeverities
        /\ Accumulated[i].severity \in SeveritiesOf(Accumulated[i].anomaly_type)
        /\ Accumulated[i].severity = "INFO" => Accumulated[i].anomaly_type = "SPREAD_ANOMALY"

\* the list holds alerts of all six kinds, a VOLUME_SPIKE of each of its
\* two severities and a PRICE_ANOMALY of each of its two
C27_Witness ==
    /\ {Accumulated[i].anomaly_type : i \in DOMAIN Accumulated} = AnomalyTypes
    /\ \A type \in {"VOLUME_SPIKE", "PRICE_ANOMALY"} :
           {a.severity : a \in Range(OfType(Accumulated, type))} = {"WARNING", "CRITICAL"}

(***************************************************************************)
(* Properties of the monitor loop (SpecMonitor)                            *)
(***************************************************************************)
PassFailed ==
    \/ lastCall.op = "monitor_fetch_failed"
    \/ lastCall.op = "monitor_ingest" /\ lastCall.raised

\* C28: the monitor retries on the next cycle after any failure.  A pass in
\* which the fetch or the ingest raised leaves the task asleep with the
\* running flag set; a failed fetch leaves the histories, the cycle counter
\* and the alerts of the engine as they were; and as long as the flag stays
\* set, every sleep ends and is followed by another pass of the loop.
C28_MonitorRetries ==
    /\ [](PassFailed => (running /\ mpc = "sleep"))
    /\ [][lastCall'.op = "monitor_fetch_failed" =>
              (engine' = engine /\ heap' = heap /\ log' = log)]_vars
    /\ (mpc = "sleep") ~> (mpc = "ready" \/ ~running)
    /\ (mpc = "ready") ~> (mpc = "sleep" \/ ~running)

\* the third ingest raised on A; the loop slept, woke and ran a fourth
\* cycle, which ingested a batch without raising
C28_Witness ==
    /\ lastCall.op = "monitor_ingest"
    /\ ~lastCall.raised
    /\ lastCall.batch = <<HotB>>
    /\ lastCall.pre_count = MIN_HISTORY
    /\ Len(Visible.history["A"]) = 5
    /\ Last(Visible.history["A"]) = PoisonA
    /\ running
    /\ mpc = "sleep"


(***************************************************************************)
(* Properties of the onset of volume alerts (SpecOnset)                    *)
(***************************************************************************)
\* the history of the security of the call, which holds one snapshot
OnsetHistory == Visible.history[lastCall.batch[1].isin]

OnsetSamples == VolumeDeltas(OnsetHistory)

OnsetCurrent == Last(OnsetHistory).volume - OnsetHistory[Len(OnsetHistory) - 1].volume

OnsetSpikes == OfType(lastCall.returned, "VOLUME_SPIKE")

\* n (x - mean) and n (n - 1) variance of the valid deltas, x the current one
OnsetDeviation == Len(OnsetSamples) * OnsetCurrent - Sum(OnsetSamples)

OnsetVariance ==
    Len(OnsetSamples) * SumSq(OnsetSamples) - Sum(OnsetSamples) * Sum(OnsetSamples)

\* C29: fed at most one snapshot of a security per batch, ingest returns a
\* VOLUME_SPIKE alert only for a security with at least 11 valid deltas, and
\* so at least 12 buffered snapshots: the current delta, when valid, is one
\* of the samples, hence z <= (n - 1) / sqrt(n), which is at most 3 for
\* n <= 10, whatever the size of the jump.
C29_SpikeNeedsElevenDeltas ==
    CallWasIngest /\ ~lastCall.raised /\ Len(lastCall.batch) = 1 =>
        /\ OnsetSpikes # <<>> =>
              /\ Len(OnsetSamples) >= 11
              /\ Len(OnsetHistory) >= 12
        /\ Len(OnsetHistory) >= 2 /\ OnsetCurrent >= 0 =>
              /\ OnsetCurrent = Last(OnsetSamples)
              /\ OnsetDeviation * OnsetDeviation
                    <= (Len(OnsetSamples) - 1) * OnsetVariance
        /\ Len(OnsetHistory) >= 2 /\ OnsetCurrent >= 0 /\ Len(OnsetSamples) <= 10 =>
              /\ (Len(OnsetSamples) - 1) * (Len(OnsetSamples) - 1)
                    <= 9 * Len(OnsetSamples)
              /\ OnsetDeviation * OnsetDeviation * (Len(OnsetSamples) - 1)
                    <= 9 * Len(OnsetSamples) * OnsetVariance

\* the earliest alert: ten regular steps and a jump, twelve snapshots
C29_Witness ==
    /\ CallWasIngest
    /\ Len(lastCall.batch) = 1
    /\ Len(OnsetSpikes) = 1
    /\ Len(OnsetHistory) = 12
    /\ Len(OnsetSamples) = 11
    /\ OnsetCurrent = 500


(***************************************************************************)
(* Properties of a call that breaks off (SpecBroken)                       *)
(***************************************************************************)
\* the fetch times the alerts of a list carry
StampsOf(alerts) == {alerts[i].timestamp : i \in DOMAIN alerts}

\* the alerts the detectors would give for the snapshots of the last batch
\* that do not break them
ComputedInCall ==
    Concat([i \in DOMAIN lastCall.batch |->
               Evaluate(Visible.snapshot_count, Visible.history, lastCall.batch[i]).alerts])

\* C30: an ingest call in which a detector raises is not atomic: the cycle is
\* counted and every snapshot of the batch is in its history, yet the alert
\* list is as before the call and nothing is returned, whatever the
\* detectors gave for the snapshots evaluated before the failure; and no
\* later call adds alerts of that cycle: an ingest only adds alerts stamped
\* with its own batch.
C30_BrokenCallNotAtomic ==
    /\ [](CallWasIngest /\ lastCall.raised =>
              /\ Visible.snapshot_count = lastCall.pre_count + 1
              /\ Len(Visible.alerts) = lastCall.pre_alerts
              /\ lastCall.returned = <<>>
              /\ Visible.snapshot_count \notin StampsOf(Visible.alerts))
    /\ [][lastCall'.op = "ingest" =>
              /\ \A s \in ISINS :
                    Visible'.history[s] = Visible.history[s] \o OfIsin(lastCall'.batch, s)
              /\ lastCall'.raised => Visible'.alerts = Visible.alerts
              /\ StampsOf(Visible'.alerts) \subseteq
                    StampsOf(Visible.alerts) \cup {Visible'.snapshot_count}
              /\ StampsOf(lastCall'.returned) \subseteq {Visible'.snapshot_count}]_vars

\* the fourth call broke off on A after B had given alerts, which are lost
AlertsLostInCall ==
    /\ CallWasIngest
    /\ lastCall.raised
    /\ lastCall.batch = Stamped(<<HotB, PoisonA>>, MIN_HISTORY + 1)
    /\ Len(ComputedInCall) >= 2
    /\ StampsOf(Visible.alerts) = {MIN_HISTORY}

\* and the fifth call, for B alone, returned the alerts of the fifth cycle only
C30_Witness ==
    /\ CallWasIngest
    /\ ~lastCall.raised
    /\ Visible.snapshot_count = MIN_HISTORY + 2
    /\ Visible.history["A"] # <<>>
    /\ Last(Visible.history["A"]) = Stamped(<<PoisonA>>, MIN_HISTORY + 1)[1]
    /\ Len(Visible.history["B"]) = MIN_HISTORY + 2
    /\ Visible.history["B"][MIN_HISTORY + 1] = Stamped(<<HotB>>, MIN_HISTORY + 1)[1]
    /\ lastCall.batch = Stamped(<<HotB>>, MIN_HISTORY + 2)
    /\ StampsOf(lastCall.returned) = {MIN_HISTORY + 2}
    /\ StampsOf(Visible.alerts) = {MIN_HISTORY, MIN_HISTORY + 2}

=============================================================================
